---- MODULE Spec2Model ----
(***************************************************************************)
(* Flight-category engine of the airport weather map: the ceiling          *)
(* extractor, the flight-category classifiers (four-tier server and        *)
(* client copies, two-tier client), the TAF period evaluator and the TAF   *)
(* forecast engine (category and weather resolution at a target time).     *)
(*                                                                         *)
(* JavaScript values are modelled as records [t, v]: t = "null" for        *)
(* null/undefined, "nan" for NaN, "num" for a number.  Visibilities are    *)
(* held in thousandths of a statute mile, ceilings in feet, times in       *)
(* seconds (or abstract ticks).  Strings are sequences of one-character    *)
(* strings, so that parseFloat and includes('+') are computed.             *)
(***************************************************************************)
EXTENDS Integers, Sequences, FiniteSets

VARIABLES
  call,        \* which function has been applied to the inputs ("none" before)
  clouds,      \* input of getCeilingFromClouds
  ceiling,     \* its result
  ceilingFt,   \* inputs of computeFlightCategory
  visibSM,
  category,    \* its result
  ceilingFt2,  \* a second classifier input (comparison of two calls)
  visibSM2,
  category2,
  taf,         \* TAF document handed to the forecast engine
  targets,     \* the target times the engine has been evaluated at
  fcstCat,     \* getForecastCategoryFromTaf / getForecastCategory at each target
  fcstWx,      \* getForecastWeatherFromTaf at each target
  fcst,        \* forecast period handed to getTafPeriodCategory
  now,         \* the server's clock, in seconds
  metar_history,  \* rows of table metar_history, in insertion order
  taf_history,    \* rows of table taf_history, in insertion order
  rowid,       \* the last AUTOINCREMENT id handed out, per table
  fetchTime,   \* fetchTime of the performHistoryFetch in flight (0: none)
  serverStartTime,  \* when the running server process started
  query,       \* from and to of the last /api/history/weather request
  samples,     \* the TAF samples of its response
  logFile,     \* the lines of data/server.log, oldest first
  logQuery,    \* n, level and category of the last /api/log request
  logEntries,  \* the entries of its response
  inTransaction,     \* whether the database connection has a transaction open
  tracked_airports,  \* rows of table tracked_airports
  dbError,           \* the statement that threw in the last database handler
  cache,       \* the in-memory proxy cache: key -> entry (or NoEntry)
  pending,     \* proxy requests waiting for their upstream answer
  responses,   \* the proxy responses sent so far, in order
  fetched,     \* the upstream answers received so far
  timers,      \* the setTimeout timers that are armed and have not fired
  timerSeq,    \* number of timers armed so far (the handle of the last one)
  historyFetchTimer,     \* handle of the last timer armed (0: null)
  nextHistoryFetchTime,  \* 0: null
  fetches,     \* the calls of performHistoryFetch in flight
  startup      \* where the server.listen callback stands

storeVars == <<now, metar_history, taf_history, rowid, fetchTime,
               serverStartTime, query, samples>>

logVars == <<logFile, logQuery, logEntries>>

txnVars == <<inTransaction, tracked_airports, dbError>>

srvVars == <<cache, pending, responses, fetched, timers, timerSeq,
             historyFetchTimer, nextHistoryFetchTime, fetches, startup>>

runVars == <<logVars, txnVars, srvVars>>

vars == <<call, clouds, ceiling, ceilingFt, visibSM, category,
          ceilingFt2, visibSM2, category2, taf, targets, fcstCat, fcstWx,
          fcst, storeVars, runVars>>

---------------------------------------------------------------------------
(* JavaScript values *)

Null == [t |-> "null", v |-> 0]
NaN == [t |-> "nan", v |-> 0]
Num(n) == [t |-> "num", v |-> n]

IsNullish(x) == x.t = "null"          \* x == null
JsLt(a, b) == a.t = "num" /\ b.t = "num" /\ a.v < b.v
JsLe(a, b) == a.t = "num" /\ b.t = "num" /\ a.v <= b.v
JsGt(a, b) == a.t = "num" /\ b.t = "num" /\ a.v > b.v

\* visibilities are fixed-point numbers: Milli units per statute mile
Milli == 10 * 10 * 10

\* a visibility field: absent, a string (possibly empty) or a number
VisAbsent == [kind |-> "absent", chars |-> <<>>, num |-> 0]
VisStr(s) == [kind |-> "string", chars |-> s, num |-> 0]
VisNum(n) == [kind |-> "number", chars |-> <<>>, num |-> n]

---------------------------------------------------------------------------
(* parseFloat and String.prototype.includes, on sequences of characters *)

DigitChars == {"0", "1", "2", "3", "4", "5", "6", "7", "8", "9"}

DigitVal(c) ==
  CASE c = "0" -> 0 [] c = "1" -> 1 [] c = "2" -> 2 [] c = "3" -> 3
    [] c = "4" -> 4 [] c = "5" -> 5 [] c = "6" -> 6 [] c = "7" -> 7
    [] c = "8" -> 8 [] c = "9" -> 9

Includes(s, c) == \E i \in 1..Len(s) : s[i] = c

RECURSIVE CountDigits(_, _)
\* number of consecutive digit characters of s from position i on
CountDigits(s, i) ==
  IF i <= Len(s) /\ s[i] \in DigitChars THEN 1 + CountDigits(s, i + 1) ELSE 0

RECURSIVE DigitsValue(_, _, _)
\* value of the n digits of s that start at position i
DigitsValue(s, i, n) ==
  IF n = 0 THEN 0
  ELSE 10 * DigitsValue(s, i, n - 1) + DigitVal(s[i + n - 1])

\* the fraction digits (n of them from position i) in thousandths, truncated
FracMilli(s, i, n) ==
  LET d(k) == IF k <= n THEN DigitVal(s[i + k - 1]) ELSE 0
  IN 100 * d(1) + 10 * d(2) + d(3)

\* parseFloat: the longest prefix [sign] digits [. digits] with at least one
\* digit; NaN when there is none
ParseFloat(s) ==
  LET signed == Len(s) >= 1 /\ s[1] \in {"+", "-"}
      i0 == IF signed THEN 2 ELSE 1
      n1 == CountDigits(s, i0)
      dot == i0 + n1
      hasDot == dot <= Len(s) /\ s[dot] = "."
      n2 == IF hasDot THEN CountDigits(s, dot + 1) ELSE 0
      mag == DigitsValue(s, i0, n1) * Milli + FracMilli(s, dot + 1, n2)
  IN IF n1 + n2 = 0 THEN NaN
     ELSE IF signed /\ s[1] = "-" THEN Num(0 - mag) ELSE Num(mag)

\* mutant: plus-notation lowers the value instead of raising it
PlusTenth_minus(x) == IF x.t = "num" THEN Num(x.v - Milli \div 10) ELSE x

\* x + 0.1 on a parsed number (NaN + 0.1 is NaN)
PlusTenth(x) == IF x.t = "num" THEN Num(x.v + Milli \div 10) ELSE x

---------------------------------------------------------------------------
(* Cloud layers and the ceiling extractor *)

NoClouds == [isArray |-> FALSE, layers |-> <<>>]
CloudList(ls) == [isArray |-> TRUE, layers |-> ls]
Layer(c, b) == [cover |-> c, base |-> b]

RECURSIVE ScanCeiling(_, _)
ScanCeiling(layers, i) ==
  IF i > Len(layers) THEN Null
  ELSE IF layers[i].cover \in {"BKN", "OVC", "OVX"} THEN layers[i].base
  ELSE ScanCeiling(layers, i + 1)

\* mutant: the lowest base of any layer, whatever its cover (getLowestCloudBase)
getCeilingFromClouds_lowestBase(cl) ==
  LET bases == {cl.layers[i].base.v : i \in {k \in 1..Len(cl.layers) : cl.layers[k].base # Null}}
  IN IF ~cl.isArray \/ bases = {} THEN Null
     ELSE Num(CHOOSE b \in bases : \A c \in bases : b <= c)

\* the outcome of a call that raises (iterating or reading a property of an
\* absent value)
TypeError == [t |-> "error", v |-> 0]

\* mutant: without the guard on an absent cloud list, "for (const c of
\* clouds)" raises
getCeilingFromClouds_unguarded(cl) ==
  IF ~cl.isArray THEN TypeError ELSE ScanCeiling(cl.layers, 1)

getCeilingFromClouds(cl) ==
  IF ~cl.isArray THEN Null ELSE ScanCeiling(cl.layers, 1)

---------------------------------------------------------------------------
(* Flight-category classifiers *)

Severity(cat) ==
  CASE cat = "LIFR" -> 3 [] cat = "IFR" -> 2 [] cat = "MVFR" -> 1 [] cat = "VFR" -> 0

\* mutant: the less severe of the two categories wins
computeFlightCategory_better(cft, vsm) ==
  LET vis == IF vsm.kind # "absent" /\ ~(vsm.kind = "string" /\ vsm.chars = <<>>)
             THEN IF vsm.kind = "string"
                  THEN IF Includes(vsm.chars, "+")
                       THEN PlusTenth(ParseFloat(vsm.chars))
                       ELSE ParseFloat(vsm.chars)
                  ELSE Num(vsm.num)
             ELSE Null
      ceilCat == IF ~IsNullish(cft)
                 THEN IF JsLt(cft, Num(500)) THEN "LIFR"
                      ELSE IF JsLt(cft, Num(1000)) THEN "IFR"
                      ELSE IF JsLe(cft, Num(3000)) THEN "MVFR"
                      ELSE "VFR"
                 ELSE "VFR"
      visCat == IF ~IsNullish(vis)
                THEN IF JsLt(vis, Num(1 * Milli)) THEN "LIFR"
                     ELSE IF JsLt(vis, Num(3 * Milli)) THEN "IFR"
                     ELSE IF JsLe(vis, Num(5 * Milli)) THEN "MVFR"
                     ELSE "VFR"
                ELSE "VFR"
  IN IF Severity(ceilCat) <= Severity(visCat) THEN ceilCat ELSE visCat

\* server copy (four-tier)
computeFlightCategory(cft, vsm) ==
  LET vis == IF vsm.kind # "absent" /\ ~(vsm.kind = "string" /\ vsm.chars = <<>>)
             THEN IF vsm.kind = "string"
                  THEN IF Includes(vsm.chars, "+")
                       THEN PlusTenth(ParseFloat(vsm.chars))
                       ELSE ParseFloat(vsm.chars)
                  ELSE Num(vsm.num)
             ELSE Null
      ceilCat == IF ~IsNullish(cft)
                 THEN IF JsLt(cft, Num(500)) THEN "LIFR"
                      ELSE IF JsLt(cft, Num(1000)) THEN "IFR"
                      ELSE IF JsLe(cft, Num(3000)) THEN "MVFR"
                      ELSE "VFR"
                 ELSE "VFR"
      visCat == IF ~IsNullish(vis)
                THEN IF JsLt(vis, Num(1 * Milli)) THEN "LIFR"
                     ELSE IF JsLt(vis, Num(3 * Milli)) THEN "IFR"
                     ELSE IF JsLe(vis, Num(5 * Milli)) THEN "MVFR"
                     ELSE "VFR"
                ELSE "VFR"
  IN IF Severity(ceilCat) >= Severity(visCat) THEN ceilCat ELSE visCat

\* client copy (four-tier)
app_computeFlightCategory(cft, vsm) ==
  LET vis == IF vsm.kind # "absent" /\ ~(vsm.kind = "string" /\ vsm.chars = <<>>)
             THEN IF vsm.kind = "string"
                  THEN IF Includes(vsm.chars, "+")
                       THEN PlusTenth(ParseFloat(vsm.chars))
                       ELSE ParseFloat(vsm.chars)
                  ELSE Num(vsm.num)
             ELSE Null
      ceilCat == IF ~IsNullish(cft)
                 THEN IF JsLt(cft, Num(500)) THEN "LIFR"
                      ELSE IF JsLt(cft, Num(1000)) THEN "IFR"
                      ELSE IF JsLe(cft, Num(3000)) THEN "MVFR"
                      ELSE "VFR"
                 ELSE "VFR"
      visCat == IF ~IsNullish(vis)
                THEN IF JsLt(vis, Num(1 * Milli)) THEN "LIFR"
                     ELSE IF JsLt(vis, Num(3 * Milli)) THEN "IFR"
                     ELSE IF JsLe(vis, Num(5 * Milli)) THEN "MVFR"
                     ELSE "VFR"
                ELSE "VFR"
  IN IF Severity(ceilCat) >= Severity(visCat) THEN ceilCat ELSE visCat

VFR_CEIL == 1500
\* mutant: the 5 km limit taken as 5 statute miles
VFR_VIS_SM_unconverted == 5 * Milli

\* 5 / 1.60934 statute miles, in thousandths (rounded down: a visibility in
\* thousandths is <= the quotient iff it is <= its floor)
VFR_VIS_SM == (5 * Milli * 100000) \div 160934

\* client copy of the two-tier variant
twotier_computeFlightCategory(cft, vsm) ==
  LET vis == IF vsm.kind # "absent" /\ ~(vsm.kind = "string" /\ vsm.chars = <<>>)
             THEN IF vsm.kind = "string"
                  THEN IF Includes(vsm.chars, "+")
                       THEN PlusTenth(ParseFloat(vsm.chars))
                       ELSE ParseFloat(vsm.chars)
                  ELSE Num(vsm.num)
             ELSE Null
  IN IF ~IsNullish(cft) /\ JsLe(cft, Num(VFR_CEIL)) THEN "IFR"
     ELSE IF ~IsNullish(vis) /\ JsLe(vis, Num(VFR_VIS_SM)) THEN "IFR"
     ELSE "VFR"

---------------------------------------------------------------------------
(* TAF period evaluator and forecast engine (server copy) *)

NoChange == "none"      \* fcstChange absent (falsy)
NoCat == "null"         \* a null category

Period(tf, tt, chg, cl, vsm, ws, wg, wd) ==
  [timeFrom |-> tf, timeTo |-> tt, fcstChange |-> chg, timeBec |-> Null,
   clouds |-> cl, visib |-> vsm, wspd |-> ws, wgst |-> wg, wdir |-> wd]

\* mutant: null as soon as one of ceiling and visibility is absent
getTafPeriodCategory_either(period) ==
  LET ceil == getCeilingFromClouds(period.clouds)
      vis == period.visib
  IN IF IsNullish(ceil)
        \/ (vis.kind = "absent" \/ (vis.kind = "string" /\ vis.chars = <<>>))
     THEN NoCat
     ELSE computeFlightCategory(ceil, vis)

getTafPeriodCategory(period) ==
  LET ceil == getCeilingFromClouds(period.clouds)
      vis == period.visib
  IN IF IsNullish(ceil)
        /\ (vis.kind = "absent" \/ (vis.kind = "string" /\ vis.chars = <<>>))
     THEN NoCat
     ELSE computeFlightCategory(ceil, vis)

\* (s[a] || 0) of worseCat
CatRank(cat) ==
  CASE cat = "VFR" -> 0 [] cat = "MVFR" -> 1 [] cat = "IFR" -> 2
    [] cat = "LIFR" -> 3 [] OTHER -> 0

\* mutant: the running category is kept, the new one only fills a null
worseCat_keepFirst(a, b) == IF a = NoCat THEN b ELSE a

\* mutant: the category applied last replaces the running one
worseCat_lastWins(a, b) == IF b = NoCat THEN a ELSE b

worseCat(a, b) ==
  IF a = NoCat THEN b
  ELSE IF b = NoCat THEN a
  ELSE IF CatRank(a) >= CatRank(b) THEN a ELSE b

IsBase(f) == f.fcstChange = NoChange          \* !f.fcstChange

RECURSIVE BaseCategory_defaultVFR(_, _, _)
\* mutant: VFR instead of null when no base period covers t
BaseCategory_defaultVFR(periods, i, t) ==
  IF i > Len(periods) THEN "VFR"
  ELSE IF periods[i].timeFrom <= t /\ t < periods[i].timeTo
       THEN getTafPeriodCategory(periods[i])
       ELSE BaseCategory_defaultVFR(periods, i + 1, t)

RECURSIVE BaseCategory(_, _, _)
\* the loop over basePeriods: category of the first period covering t
BaseCategory(periods, i, t) ==
  IF i > Len(periods) THEN NoCat
  ELSE IF periods[i].timeFrom <= t /\ t < periods[i].timeTo
       THEN getTafPeriodCategory(periods[i])
       ELSE BaseCategory(periods, i + 1, t)

\* mutant: a BECMG group ends at its timeTo, like a TEMPO group
BecmgApplies_untilTimeTo(cg, t) ==
  cg.fcstChange = "BECMG" /\ cg.timeFrom <= t /\ t < cg.timeTo

\* the guard of the BECMG loop body
BecmgApplies(cg, t) == cg.fcstChange = "BECMG" /\ cg.timeFrom <= t

\* mutant: a TEMPO/PROB group never ends
OverlayApplies_noEnd(cg, t) == cg.fcstChange # "BECMG" /\ cg.timeFrom <= t

\* mutant: the window of a TEMPO/PROB group includes its timeTo
OverlayApplies_inclusiveEnd(cg, t) ==
  cg.fcstChange # "BECMG" /\ cg.timeFrom <= t /\ t <= cg.timeTo

\* the guard of the TEMPO/PROB loop body
OverlayApplies(cg, t) ==
  cg.fcstChange # "BECMG" /\ cg.timeFrom <= t /\ t < cg.timeTo

RECURSIVE BecmgCategory(_, _, _, _)
\* the loop over changeGroups that applies the BECMG groups to baseCat
BecmgCategory(groups, i, t, baseCat) ==
  IF i > Len(groups) THEN baseCat
  ELSE IF BecmgApplies(groups[i], t)
       THEN BecmgCategory(groups, i + 1, t,
                          worseCat(baseCat, getTafPeriodCategory(groups[i])))
       ELSE BecmgCategory(groups, i + 1, t, baseCat)

RECURSIVE OverlayCategory(_, _, _, _)
\* the loop over changeGroups that overlays the TEMPO/PROB groups
OverlayCategory(groups, i, t, worstCat) ==
  IF i > Len(groups) THEN worstCat
  ELSE IF OverlayApplies(groups[i], t)
       THEN OverlayCategory(groups, i + 1, t,
                            worseCat(worstCat, getTafPeriodCategory(groups[i])))
       ELSE OverlayCategory(groups, i + 1, t, worstCat)

\* mutant: validTimeTo itself counts as inside the window
OutsideValidity_inclusiveEnd(doc, t) == t < doc.validTimeFrom \/ t > doc.validTimeTo

\* the guard on the validity window
OutsideValidity(doc, t) == t < doc.validTimeFrom \/ t >= doc.validTimeTo

getForecastCategoryFromTaf(doc, t) ==
  IF Len(doc.fcsts) = 0 THEN NoCat
  ELSE IF OutsideValidity(doc, t) THEN NoCat
  ELSE LET basePeriods == SelectSeq(doc.fcsts, IsBase)
           changeGroups == SelectSeq(doc.fcsts, LAMBDA f : ~IsBase(f))
           baseCat == BecmgCategory(changeGroups, 1, t,
                                    BaseCategory(basePeriods, 1, t))
       IN OverlayCategory(changeGroups, 1, t, baseCat)

---------------------------------------------------------------------------
(* Weather-parameter resolution (server) *)

NoWeather == [isNull |-> TRUE, wspd |-> Null, wgst |-> Null, wdir |-> Null,
              ceiling |-> Null]
Weather(ws, wg, wd, ce) ==
  [isNull |-> FALSE, wspd |-> ws, wgst |-> wg, wdir |-> wd, ceiling |-> ce]

RECURSIVE BaseWeather(_, _, _)
BaseWeather(periods, i, t) ==
  IF i > Len(periods) THEN Weather(Null, Null, Null, Null)
  ELSE IF periods[i].timeFrom <= t /\ t < periods[i].timeTo
       THEN Weather(periods[i].wspd, periods[i].wgst, periods[i].wdir,
                    getCeilingFromClouds(periods[i].clouds))
       ELSE BaseWeather(periods, i + 1, t)

\* mutant: a BECMG group combines like a TEMPO group (highest wind, lowest
\* ceiling) and overwrites only the direction
BecmgOverwrite_worst(cg, r) ==
  LET becmgCeiling == getCeilingFromClouds(cg.clouds)
  IN Weather(IF ~IsNullish(cg.wspd) /\ (IsNullish(r.wspd) \/ JsGt(cg.wspd, r.wspd))
             THEN cg.wspd ELSE r.wspd,
             IF ~IsNullish(cg.wgst) /\ (IsNullish(r.wgst) \/ JsGt(cg.wgst, r.wgst))
             THEN cg.wgst ELSE r.wgst,
             IF ~IsNullish(cg.wdir) THEN cg.wdir ELSE r.wdir,
             IF ~IsNullish(becmgCeiling)
                /\ (IsNullish(r.ceiling) \/ JsLt(becmgCeiling, r.ceiling))
             THEN becmgCeiling ELSE r.ceiling)

\* body of the BECMG loop: overwrite what the group reports
BecmgOverwrite(cg, r) ==
  LET becmgCeiling == getCeilingFromClouds(cg.clouds)
  IN Weather(IF ~IsNullish(cg.wspd) THEN cg.wspd ELSE r.wspd,
             IF ~IsNullish(cg.wgst) THEN cg.wgst ELSE r.wgst,
             IF ~IsNullish(cg.wdir) THEN cg.wdir ELSE r.wdir,
             IF ~IsNullish(becmgCeiling) THEN becmgCeiling ELSE r.ceiling)

\* mutant: a TEMPO/PROB group overwrites what it reports, like a BECMG group
OverlayWorst_overwrite(cg, r) ==
  LET tempoCeiling == getCeilingFromClouds(cg.clouds)
  IN Weather(IF ~IsNullish(cg.wspd) THEN cg.wspd ELSE r.wspd,
             IF ~IsNullish(cg.wgst) THEN cg.wgst ELSE r.wgst,
             r.wdir,
             IF ~IsNullish(tempoCeiling) THEN tempoCeiling ELSE r.ceiling)

\* body of the TEMPO/PROB loop: highest wind, lowest ceiling
OverlayWorst(cg, r) ==
  LET tempoCeiling == getCeilingFromClouds(cg.clouds)
  IN Weather(IF ~IsNullish(cg.wspd) /\ (IsNullish(r.wspd) \/ JsGt(cg.wspd, r.wspd))
             THEN cg.wspd ELSE r.wspd,
             IF ~IsNullish(cg.wgst) /\ (IsNullish(r.wgst) \/ JsGt(cg.wgst, r.wgst))
             THEN cg.wgst ELSE r.wgst,
             r.wdir,
             IF ~IsNullish(tempoCeiling)
                /\ (IsNullish(r.ceiling) \/ JsLt(tempoCeiling, r.ceiling))
             THEN tempoCeiling ELSE r.ceiling)

RECURSIVE BecmgWeather(_, _, _, _)
BecmgWeather(groups, i, t, r) ==
  IF i > Len(groups) THEN r
  ELSE IF BecmgApplies(groups[i], t)
       THEN BecmgWeather(groups, i + 1, t, BecmgOverwrite(groups[i], r))
       ELSE BecmgWeather(groups, i + 1, t, r)

RECURSIVE OverlayWeather(_, _, _, _)
OverlayWeather(groups, i, t, r) ==
  IF i > Len(groups) THEN r
  ELSE IF OverlayApplies(groups[i], t)
       THEN OverlayWeather(groups, i + 1, t, OverlayWorst(groups[i], r))
       ELSE OverlayWeather(groups, i + 1, t, r)

getForecastWeatherFromTaf(doc, t) ==
  IF Len(doc.fcsts) = 0 THEN NoWeather
  ELSE IF OutsideValidity(doc, t) THEN NoWeather
  ELSE LET basePeriods == SelectSeq(doc.fcsts, IsBase)
           changeGroups == SelectSeq(doc.fcsts, LAMBDA f : ~IsBase(f))
       IN OverlayWeather(changeGroups, 1, t,
            BecmgWeather(changeGroups, 1, t, BaseWeather(basePeriods, 1, t)))

---------------------------------------------------------------------------
(* Client copy of the engine (four-tier app.js) *)

RECURSIVE app_ScanCeiling(_, _)
app_ScanCeiling(layers, i) ==
  IF i > Len(layers) THEN Null
  ELSE IF layers[i].cover \in {"BKN", "OVC", "OVX"} THEN layers[i].base
  ELSE app_ScanCeiling(layers, i + 1)

app_getCeilingFromClouds(cl) ==
  IF ~cl.isArray THEN Null ELSE app_ScanCeiling(cl.layers, 1)

app_getTafPeriodCategory(period) ==
  LET ceil == app_getCeilingFromClouds(period.clouds)
      vis == period.visib
  IN IF IsNullish(ceil)
        /\ (vis.kind = "absent" \/ (vis.kind = "string" /\ vis.chars = <<>>))
     THEN NoCat
     ELSE app_computeFlightCategory(ceil, vis)

\* (CATEGORY_SEVERITY[a] || 0)
CATEGORY_SEVERITY(cat) ==
  CASE cat = "VFR" -> 0 [] cat = "MVFR" -> 1 [] cat = "IFR" -> 2
    [] cat = "LIFR" -> 3 [] OTHER -> 0

app_worseCat(a, b) ==
  IF a = NoCat THEN b
  ELSE IF b = NoCat THEN a
  ELSE IF CATEGORY_SEVERITY(a) >= CATEGORY_SEVERITY(b) THEN a ELSE b

RECURSIVE app_BaseCategory(_, _, _)
app_BaseCategory(periods, i, t) ==
  IF i > Len(periods) THEN NoCat
  ELSE IF periods[i].timeFrom <= t /\ t < periods[i].timeTo
       THEN app_getTafPeriodCategory(periods[i])
       ELSE app_BaseCategory(periods, i + 1, t)

RECURSIVE app_BecmgCategory_fromCompletion(_, _, _, _)
\* mutant: a BECMG group applies from its completion time (timeBec, or timeTo
\* when absent) instead of its timeFrom
app_BecmgCategory_fromCompletion(groups, i, t, baseCat) ==
  IF i > Len(groups) THEN baseCat
  ELSE LET completionTime ==
             IF groups[i].timeBec.t = "num" /\ groups[i].timeBec.v # 0
             THEN groups[i].timeBec.v ELSE groups[i].timeTo
       IN IF groups[i].fcstChange = "BECMG" /\ completionTime <= t
          THEN app_BecmgCategory_fromCompletion(groups, i + 1, t,
                 app_worseCat(baseCat, app_getTafPeriodCategory(groups[i])))
          ELSE app_BecmgCategory_fromCompletion(groups, i + 1, t, baseCat)

RECURSIVE app_BecmgCategory(_, _, _, _)
app_BecmgCategory(groups, i, t, baseCat) ==
  IF i > Len(groups) THEN baseCat
  ELSE IF groups[i].fcstChange = "BECMG" /\ groups[i].timeFrom <= t
       THEN app_BecmgCategory(groups, i + 1, t,
              app_worseCat(baseCat, app_getTafPeriodCategory(groups[i])))
       ELSE app_BecmgCategory(groups, i + 1, t, baseCat)

RECURSIVE app_OverlayCategory(_, _, _, _)
app_OverlayCategory(groups, i, t, worstCat) ==
  IF i > Len(groups) THEN worstCat
  ELSE IF /\ groups[i].fcstChange # "BECMG"
          /\ groups[i].timeFrom <= t /\ t < groups[i].timeTo
       THEN app_OverlayCategory(groups, i + 1, t,
              app_worseCat(worstCat, app_getTafPeriodCategory(groups[i])))
       ELSE app_OverlayCategory(groups, i + 1, t, worstCat)

\* getForecastCategory(icao, targetTime) with tafData[icao] = doc
app_getForecastCategory(doc, t) ==
  IF Len(doc.fcsts) = 0 THEN NoCat
  ELSE IF t < doc.validTimeFrom \/ t >= doc.validTimeTo THEN NoCat
  ELSE LET basePeriods == SelectSeq(doc.fcsts, LAMBDA f : f.fcstChange = NoChange)
           changeGroups == SelectSeq(doc.fcsts, LAMBDA f : f.fcstChange # NoChange)
           baseCat == app_BecmgCategory(changeGroups, 1, t,
                                        app_BaseCategory(basePeriods, 1, t))
       IN app_OverlayCategory(changeGroups, 1, t, baseCat)

---------------------------------------------------------------------------
(* Inputs *)

\* all sequences over S of length at most n
SeqsUpTo(S, n) == UNION {[1..k -> S] : k \in 0..n}

MaxLayers == 2
Covers == {"SKC", "CLR", "FEW", "SCT", "BKN", "OVC", "OVX"}
Bases == {Null, Num(1000), Num(2000), Num(3500)}
LayerInputs == {Layer(c, b) : c \in Covers, b \in Bases}
CloudInputs == {NoClouds} \cup {CloudList(ls) : ls \in SeqsUpTo(LayerInputs, MaxLayers)}

MaxVisLen == 3
VisAlphabet == {"0", "1", "2", "3", "5", "6", "9", ".", "+", "x"}
VisNumbers == {0, 500, 999, 1000, 2990, 3000, 3106, 3107, 5000, 5001, 6000, 10000}
VisInputs ==
  {VisAbsent} \cup {VisNum(n) : n \in VisNumbers}
              \cup {VisStr(s) : s \in SeqsUpTo(VisAlphabet, MaxVisLen)}
CeilingInputs ==
  {Null} \cup {Num(n) : n \in {0, 400, 499, 500, 999, 1000, 1500, 1501, 3000, 3001, 3500}}

\* values of the variables a specification does not use
CloudsIdle == clouds = NoClouds /\ ceiling = Null
ClassifyIdle == ceilingFt = Null /\ visibSM = VisAbsent /\ category = NoCat
SecondIdle == ceilingFt2 = Null /\ visibSM2 = VisAbsent /\ category2 = NoCat
NoTaf == [validTimeFrom |-> 0, validTimeTo |-> 0, fcsts |-> <<>>]
TafIdle == taf = NoTaf /\ targets = {} /\ fcstCat = <<>> /\ fcstWx = <<>>
PeriodIdle == fcst = Period(0, 0, NoChange, NoClouds, VisAbsent, Null, Null, Null)
StoreIdle ==
  /\ now = 0
  /\ metar_history = <<>>
  /\ taf_history = <<>>
  /\ rowid = [metar_history |-> 0, taf_history |-> 0]
  /\ fetchTime = 0
  /\ serverStartTime = 0
  /\ query = [from |-> 0, to |-> 0]
  /\ samples = <<>>
NoQuery == [n |-> [kind |-> "absent", chars |-> <<>>], level |-> "", category |-> ""]
LogIdle == logFile = <<>> /\ logQuery = NoQuery /\ logEntries = <<>>
TxnIdle == inTransaction = FALSE /\ tracked_airports = <<>> /\ dbError = "none"
NoEntry == [present |-> FALSE, statusCode |-> 0, body |-> <<>>, time |-> 0]
SrvIdle ==
  /\ cache = [key \in {"metar:all", "taf:all"} |-> NoEntry]
  /\ pending = {}
  /\ responses = <<>>
  /\ fetched = {}
  /\ timers = {}
  /\ timerSeq = 0
  /\ historyFetchTimer = 0
  /\ nextHistoryFetchTime = 0
  /\ fetches = {}
  /\ startup = "done"
RunIdle == LogIdle /\ TxnIdle /\ SrvIdle

---------------------------------------------------------------------------
(* The ceiling extractor applied to a cloud list *)

InitCeiling ==
  /\ call = "none"
  /\ clouds \in CloudInputs
  /\ ceiling = Null
  /\ ClassifyIdle /\ SecondIdle /\ TafIdle /\ PeriodIdle /\ StoreIdle /\ RunIdle

GetCeiling ==
  /\ call = "none"
  /\ call' = "getCeilingFromClouds"
  /\ ceiling' = getCeilingFromClouds(clouds)
  /\ UNCHANGED <<clouds, ceilingFt, visibSM, category, ceilingFt2, visibSM2,
                 category2, taf, targets, fcstCat, fcstWx, fcst, storeVars, runVars>>

NextCeiling == GetCeiling

SpecCeiling == InitCeiling /\ [][NextCeiling]_vars

---------------------------------------------------------------------------
(* The classifiers applied to one (ceiling, visibility) input *)

InitClassify ==
  /\ call = "none"
  /\ ceilingFt \in CeilingInputs
  /\ visibSM \in VisInputs
  /\ category = NoCat
  /\ CloudsIdle /\ SecondIdle /\ TafIdle /\ PeriodIdle /\ StoreIdle /\ RunIdle

ClassifyFrame ==
  UNCHANGED <<clouds, ceiling, ceilingFt, visibSM, ceilingFt2, visibSM2,
              category2, taf, targets, fcstCat, fcstWx, fcst, storeVars, runVars>>

Classify ==
  /\ call = "none"
  /\ call' = "computeFlightCategory"
  /\ category' = computeFlightCategory(ceilingFt, visibSM)
  /\ ClassifyFrame

AppClassify ==
  /\ call = "none"
  /\ call' = "app.computeFlightCategory"
  /\ category' = app_computeFlightCategory(ceilingFt, visibSM)
  /\ ClassifyFrame

TwoTierClassify ==
  /\ call = "none"
  /\ call' = "twotier.computeFlightCategory"
  /\ category' = twotier_computeFlightCategory(ceilingFt, visibSM)
  /\ ClassifyFrame

NextClassify == Classify \/ AppClassify \/ TwoTierClassify

SpecClassify == InitClassify /\ [][NextClassify]_vars

---------------------------------------------------------------------------
(* The four-tier classifier applied to two inputs (comparison of results) *)

DigitChar(d) ==
  CASE d = 0 -> "0" [] d = 1 -> "1" [] d = 2 -> "2" [] d = 3 -> "3"
    [] d = 4 -> "4" [] d = 5 -> "5" [] d = 6 -> "6" [] d = 7 -> "7"
    [] d = 8 -> "8" [] d = 9 -> "9"

RECURSIVE Numeral(_)
\* the decimal numeral of a natural number
Numeral(n) ==
  IF n < 10 THEN <<DigitChar(n)>> ELSE Numeral(n \div 10) \o <<DigitChar(n % 10)>>

WholeMiles == {0, 1, 2, 3, 4, 5, 6, 10}
\* visibility inputs paired with the visibility they report, in thousandths:
\* numbers, whole-mile strings "N", and plus-notation strings "N+" (N + 0.1)
MonoTable ==
  {<<VisNum(n), n>> : n \in VisNumbers}
    \cup {<<VisStr(Numeral(k)), k * Milli>> : k \in WholeMiles}
    \cup {<<VisStr(Numeral(k) \o <<"+">>), k * Milli + Milli \div 10>> : k \in WholeMiles}
MonoVisInputs == {VisAbsent} \cup {p[1] : p \in MonoTable}
MonoCeilingInputs ==
  {Null} \cup {Num(n) : n \in {400, 499, 500, 999, 1000, 3000, 3001}}

InitMono ==
  /\ call = "none"
  /\ ceilingFt \in MonoCeilingInputs
  /\ visibSM \in MonoVisInputs
  /\ ceilingFt2 \in MonoCeilingInputs
  /\ visibSM2 \in MonoVisInputs
  /\ category = NoCat
  /\ category2 = NoCat
  /\ CloudsIdle /\ TafIdle /\ PeriodIdle /\ StoreIdle /\ RunIdle

MonoFrame ==
  UNCHANGED <<clouds, ceiling, ceilingFt, visibSM, ceilingFt2, visibSM2,
              taf, targets, fcstCat, fcstWx, fcst, storeVars, runVars>>

ClassifyBoth ==
  /\ call = "none"
  /\ call' = "computeFlightCategory"
  /\ category' = computeFlightCategory(ceilingFt, visibSM)
  /\ category2' = computeFlightCategory(ceilingFt2, visibSM2)
  /\ MonoFrame

AppClassifyBoth ==
  /\ call = "none"
  /\ call' = "app.computeFlightCategory"
  /\ category' = app_computeFlightCategory(ceilingFt, visibSM)
  /\ category2' = app_computeFlightCategory(ceilingFt2, visibSM2)
  /\ MonoFrame

NextMono == ClassifyBoth \/ AppClassifyBoth

SpecMono == InitMono /\ [][NextMono]_vars

---------------------------------------------------------------------------
(* The forecast engine applied to a TAF document at every instant *)

MaxFcsts == 2
\* The engine only compares instants, so three ordered instants place a target
\* before, at and after a boundary.
Ticks == {0, 1, 2}
\* [timeFrom, timeTo) of a period: the well-formed windows over Ticks and two
\* malformed ones (timeTo = timeFrom, timeTo < timeFrom)
Windows == {<<0, 1>>, <<0, 2>>, <<1, 2>>, <<1, 1>>, <<1, 0>>}
\* validity windows: one that ends at the last instant, one that begins after
\* the first
Validities == {<<0, 2>>, <<1, 3>>}
Changes == {NoChange, "BECMG", "TEMPO", "PROB"}

\* what a period reports: nothing; fair weather (VFR); a low ceiling with
\* strong wind (IFR)
Quiet == [clouds |-> NoClouds, visib |-> VisAbsent,
          wspd |-> Null, wgst |-> Null, wdir |-> Null]
Fair == [clouds |-> CloudList(<<Layer("SCT", Num(2000)), Layer("BKN", Num(5000))>>),
         visib |-> VisStr(<<"6", "+">>),
         wspd |-> Num(5), wgst |-> Null, wdir |-> Num(90)]
Poor == [clouds |-> CloudList(<<Layer("BKN", Num(800))>>), visib |-> VisAbsent,
         wspd |-> Num(20), wgst |-> Num(30), wdir |-> Num(270)]
Reports == {Quiet, Fair, Poor}

PeriodInputs ==
  {Period(w[1], w[2], chg, r.clouds, r.visib, r.wspd, r.wgst, r.wdir) :
     w \in Windows, chg \in Changes, r \in Reports}
TafDoc(v, fs) == [validTimeFrom |-> v[1], validTimeTo |-> v[2], fcsts |-> fs]

InitTaf ==
  /\ call = "none"
  /\ \E v \in Validities, fs \in SeqsUpTo(PeriodInputs, MaxFcsts) : taf = TafDoc(v, fs)
  /\ targets = {}
  /\ fcstCat = <<>>
  /\ fcstWx = <<>>
  /\ CloudsIdle /\ ClassifyIdle /\ SecondIdle /\ PeriodIdle /\ StoreIdle /\ RunIdle

TafFrame ==
  UNCHANGED <<clouds, ceiling, ceilingFt, visibSM, category, ceilingFt2,
              visibSM2, category2, taf, fcst, storeVars, runVars>>

\* the server evaluates the category of the document at each instant
ForecastCategories ==
  /\ call = "none"
  /\ call' = "getForecastCategoryFromTaf"
  /\ targets' = Ticks
  /\ fcstCat' = [t \in Ticks |-> getForecastCategoryFromTaf(taf, t)]
  /\ UNCHANGED fcstWx
  /\ TafFrame

\* the server evaluates the weather parameters of the document at each instant
ForecastWeather ==
  /\ call = "none"
  /\ call' = "getForecastWeatherFromTaf"
  /\ targets' = Ticks
  /\ fcstWx' = [t \in Ticks |-> getForecastWeatherFromTaf(taf, t)]
  /\ UNCHANGED fcstCat
  /\ TafFrame

\* the client evaluates the category of the document at each instant
AppForecastCategories ==
  /\ call = "none"
  /\ call' = "app.getForecastCategory"
  /\ targets' = Ticks
  /\ fcstCat' = [t \in Ticks |-> app_getForecastCategory(taf, t)]
  /\ UNCHANGED fcstWx
  /\ TafFrame

NextTaf == ForecastCategories \/ ForecastWeather \/ AppForecastCategories

SpecTaf == InitTaf /\ [][NextTaf]_vars

---------------------------------------------------------------------------
(* The engine applied to one day's forecast at a chosen instant *)

Hour == 60 * 60
Quarter == Hour \div 4

\* TAF valid 00:00Z-24:00Z: base 00-12 (BKN 5000, visibility "6+"), base 12-24
\* (BKN 4000), BECMG from 10:00 (timeBec 11:00) to BKN 800, TEMPO 14-16 with
\* visibility "1"
ScenarioTaf ==
  [validTimeFrom |-> 0, validTimeTo |-> 24 * Hour,
   fcsts |-> <<
     Period(0, 12 * Hour, NoChange, CloudList(<<Layer("BKN", Num(5000))>>),
            VisStr(<<"6", "+">>), Null, Null, Null),
     [Period(10 * Hour, 11 * Hour, "BECMG", CloudList(<<Layer("BKN", Num(800))>>),
             VisAbsent, Null, Null, Null) EXCEPT !.timeBec = Num(11 * Hour)],
     Period(12 * Hour, 24 * Hour, NoChange, CloudList(<<Layer("BKN", Num(4000))>>),
            VisAbsent, Null, Null, Null),
     Period(14 * Hour, 16 * Hour, "TEMPO", NoClouds, VisStr(<<"1">>),
            Null, Null, Null) >>]

\* every quarter of an hour from 01:00 before to 01:00 after the validity window
ScenarioGrid == {k * Quarter : k \in (0 - 4)..(25 * 4)}

InitScenario ==
  /\ call = "none"
  /\ taf = ScenarioTaf
  /\ targets = {}
  /\ fcstCat = <<>>
  /\ fcstWx = <<>>
  /\ CloudsIdle /\ ClassifyIdle /\ SecondIdle /\ PeriodIdle /\ StoreIdle /\ RunIdle

CategoryAt(t) ==
  /\ call = "none"
  /\ call' = "getForecastCategoryFromTaf"
  /\ targets' = {t}
  /\ fcstCat' = [u \in {t} |-> getForecastCategoryFromTaf(taf, u)]
  /\ UNCHANGED fcstWx
  /\ TafFrame

WeatherAt(t) ==
  /\ call = "none"
  /\ call' = "getForecastWeatherFromTaf"
  /\ targets' = {t}
  /\ fcstWx' = [u \in {t} |-> getForecastWeatherFromTaf(taf, u)]
  /\ UNCHANGED fcstCat
  /\ TafFrame

AppCategoryAt(t) ==
  /\ call = "none"
  /\ call' = "app.getForecastCategory"
  /\ targets' = {t}
  /\ fcstCat' = [u \in {t} |-> app_getForecastCategory(taf, u)]
  /\ UNCHANGED fcstWx
  /\ TafFrame

NextScenario ==
  \E t \in ScenarioGrid : CategoryAt(t) \/ WeatherAt(t) \/ AppCategoryAt(t)

SpecScenario == InitScenario /\ [][NextScenario]_vars

---------------------------------------------------------------------------
(* Properties of the ceiling extractor *)

Qualifies(layer) == layer.cover = "BKN" \/ layer.cover = "OVC" \/ layer.cover = "OVX"

\* C10: getCeilingFromClouds returns the base of the first layer, in list
\* order, whose cover is BKN, OVC or OVX, and null when the list is absent,
\* empty or holds no such layer; [SCT 2000, BKN 3500] gives 3500 and
\* [FEW 1000] gives null.
C10_FirstQualifyingLayer ==
  call = "getCeilingFromClouds" =>
    /\ IF clouds.isArray /\ \E i \in 1..Len(clouds.layers) : Qualifies(clouds.layers[i])
       THEN \E i \in 1..Len(clouds.layers) :
              /\ Qualifies(clouds.layers[i])
              /\ \A k \in 1..(i - 1) : ~Qualifies(clouds.layers[k])
              /\ ceiling = clouds.layers[i].base
       ELSE ceiling = Null
    /\ clouds = CloudList(<<Layer("SCT", Num(2000)), Layer("BKN", Num(3500))>>)
         => ceiling = Num(3500)
    /\ clouds = CloudList(<<Layer("FEW", Num(1000))>>) => ceiling = Null

\* a list whose first qualifying layer is neither its first nor its lowest layer
C10_Witness ==
  /\ call = "getCeilingFromClouds"
  /\ clouds = CloudList(<<Layer("SCT", Num(2000)), Layer("BKN", Num(3500))>>)
  /\ ceiling = Num(3500)

---------------------------------------------------------------------------
(* Properties of the classifiers *)

\* A string that is a plain decimal numeral: digits, or digits "." digits
IsNumeral(s) ==
  /\ Len(s) >= 1
  /\ \A i \in 1..Len(s) : s[i] \in DigitChars \cup {"."}
  /\ s[1] # "." /\ s[Len(s)] # "."
  /\ Cardinality({i \in 1..Len(s) : s[i] = "."}) <= 1

RECURSIVE NumeralMilli(_, _, _)
\* the value of a numeral in thousandths: position i, unit weight w of the
\* digit at i (Milli * 10^k before the point, Milli / 10^k after it)
NumeralMilli(s, i, w) ==
  IF i > Len(s) THEN 0
  ELSE IF s[i] = "." THEN NumeralMilli(s, i + 1, w)
  ELSE DigitVal(s[i]) * w + NumeralMilli(s, i + 1, w \div 10)

IntegerDigits(s) ==
  IF \E i \in 1..Len(s) : s[i] = "." THEN (CHOOSE i \in 1..Len(s) : s[i] = ".") - 1
  ELSE Len(s)

RECURSIVE Pow10(_)
Pow10(k) == IF k = 0 THEN 1 ELSE 10 * Pow10(k - 1)

NumeralValue(s) == NumeralMilli(s, 1, Milli * Pow10(IntegerDigits(s) - 1))

\* The visibility inputs the classification table speaks about, and what they
\* report: "absent", "unparseable", or a value in thousandths of a mile.
VisReported(vsm) ==
  IF vsm.kind = "absent" \/ vsm = VisStr(<<>>) THEN [what |-> "absent", milli |-> 0]
  ELSE IF vsm.kind = "number" THEN [what |-> "value", milli |-> vsm.num]
  ELSE IF IsNumeral(vsm.chars)
       THEN [what |-> "value", milli |-> NumeralValue(vsm.chars)]
  ELSE IF vsm.chars[Len(vsm.chars)] = "+" /\ IsNumeral(SubSeq(vsm.chars, 1, Len(vsm.chars) - 1))
       THEN [what |-> "value",
             milli |-> NumeralValue(SubSeq(vsm.chars, 1, Len(vsm.chars) - 1)) + Milli \div 10]
  ELSE IF \/ \A i \in 1..Len(vsm.chars) : vsm.chars[i] \notin DigitChars
          \/ vsm.chars[1] \notin DigitChars \cup {"+", "-", "."}
       THEN [what |-> "unparseable", milli |-> 0]
  ELSE [what |-> "other", milli |-> 0]

TableCeilingCategory(cft) ==
  IF cft = Null THEN "VFR"
  ELSE IF cft.v < 500 THEN "LIFR"
  ELSE IF cft.v <= 999 THEN "IFR"
  ELSE IF cft.v <= 3000 THEN "MVFR"
  ELSE "VFR"

TableVisibilityCategory(rep) ==
  IF rep.what # "value" THEN "VFR"
  ELSE IF rep.milli < 1 * Milli THEN "LIFR"
  ELSE IF rep.milli < 3 * Milli THEN "IFR"
  ELSE IF rep.milli <= 5 * Milli THEN "MVFR"
  ELSE "VFR"

SeverityOrder == <<"VFR", "MVFR", "IFR", "LIFR">>
SeverityOf(cat) == CHOOSE i \in 1..4 : SeverityOrder[i] = cat
MoreSevere(a, b) == IF SeverityOf(a) >= SeverityOf(b) THEN a ELSE b

\* C7: the four-tier computeFlightCategory returns the more severe of the
\* ceiling category (LIFR < 500, IFR 500..999, MVFR 1000..3000, VFR above or
\* absent) and the visibility category (LIFR < 1 SM, IFR 1..<3, MVFR 3..5,
\* VFR above 5 or absent/unparseable), "N+" counting as N + 0.1; and
\* classify(null, null) = VFR, classify(400, "10") = LIFR,
\* classify(1500, "2") = IFR, classify(3500, "10") = VFR.
C7_FourTierTable ==
  call = "computeFlightCategory" =>
    /\ VisReported(visibSM).what # "other" =>
         category = MoreSevere(TableCeilingCategory(ceilingFt),
                               TableVisibilityCategory(VisReported(visibSM)))
    /\ (ceilingFt = Null /\ visibSM = VisAbsent) => category = "VFR"
    /\ (ceilingFt = Num(400) /\ visibSM = VisStr(<<"1", "0">>)) => category = "LIFR"
    /\ (ceilingFt = Num(1500) /\ visibSM = VisStr(<<"2">>)) => category = "IFR"
    /\ (ceilingFt = Num(3500) /\ visibSM = VisStr(<<"1", "0">>)) => category = "VFR"

\* visibility dominates a better ceiling, with plus-notation at a boundary
C7_Witness ==
  /\ call = "computeFlightCategory"
  /\ ceilingFt = Num(1500)
  /\ visibSM = VisStr(<<"2", "+">>)
  /\ category = "IFR"

\* C9: the two-tier computeFlightCategory returns IFR exactly when the ceiling
\* is present and <= 1500 ft or the visibility is present and <= 5 km
\* (statute miles times 1.60934, "N+" counting as N + 0.1 SM), VFR otherwise.
C9_TwoTierRule ==
  (call = "twotier.computeFlightCategory" /\ VisReported(visibSM).what # "other") =>
    LET rep == VisReported(visibSM)
        lowCeiling == ceilingFt # Null /\ ceilingFt.v <= 1500
        \* milli * 1.60934 km <= 5 km, both sides times 100000 * Milli
        lowVisibility == /\ rep.what = "value"
                         /\ rep.milli <= 10 * Milli
                         /\ rep.milli * 160934 <= 5 * 100000 * Milli
    IN /\ category \in {"IFR", "VFR"}
       /\ category = "IFR" <=> (lowCeiling \/ lowVisibility)

\* a good ceiling with a visibility just under 5 km (3.1 SM = 4.99 km)
C9_Witness ==
  /\ call = "twotier.computeFlightCategory"
  /\ ceilingFt = Num(3500)
  /\ visibSM = VisStr(<<"3", "+">>)
  /\ category = "IFR"

\* order of inputs by reported conditions: absent is above every value
CeilingLe(a, b) == b = Null \/ (a # Null /\ a.v <= b.v)
MonoValue(vsm) == (CHOOSE p \in MonoTable : p[1] = vsm)[2]
VisibilityLe(a, b) ==
  b = VisAbsent \/ (a # VisAbsent /\ MonoValue(a) <= MonoValue(b))

\* C8: computeFlightCategory is monotonic: for ceilings c1 <= c2 and
\* visibilities v1 <= v2 (absent above every value), classify(c1, v1) is at
\* least as severe as classify(c2, v2), in the server and the client copy.
C8_Monotonic ==
  (/\ call \in {"computeFlightCategory", "app.computeFlightCategory"}
   /\ CeilingLe(ceilingFt, ceilingFt2)
   /\ VisibilityLe(visibSM, visibSM2))
    => SeverityOf(category) >= SeverityOf(category2)

\* strictly lower ceiling and visibility, strictly more severe category
C8_Witness ==
  /\ call = "computeFlightCategory"
  /\ ceilingFt = Num(999) /\ ceilingFt2 = Num(1000)
  /\ visibSM = VisStr(<<"5">>) /\ visibSM2 = VisStr(<<"5", "+">>)
  /\ category = "IFR" /\ category2 = "MVFR"

---------------------------------------------------------------------------
(* Properties of the forecast engine *)

InValidity(doc, t) == doc.validTimeFrom <= t /\ t < doc.validTimeTo
InWindow(p, t) == p.timeFrom <= t /\ t < p.timeTo
AtLeastAsSevere(cat, c) == cat # NoCat /\ SeverityOf(cat) >= SeverityOf(c)
Indices(doc) == 1..Len(doc.fcsts)
BaseIndices(doc) == {i \in Indices(doc) : doc.fcsts[i].fcstChange = NoChange}
GroupIndices(doc) == Indices(doc) \ BaseIndices(doc)

\* C1: a BECMG group with timeFrom = t0 and own category C (non-null) makes
\* the category at every t with t0 <= t inside the validity window at least as
\* severe as C, also after the group's timeTo and inside later base periods.
C1_BecmgPermanent ==
  call = "getForecastCategoryFromTaf" =>
    \A i \in Indices(taf) :
      LET g == taf.fcsts[i]
          C == getTafPeriodCategory(g)
      IN (g.fcstChange = "BECMG" /\ C # NoCat) =>
           \A t \in targets :
             (g.timeFrom <= t /\ InValidity(taf, t)) => AtLeastAsSevere(fcstCat[t], C)

BecmgThenBase ==
  TafDoc(<<0, 2>>,
         <<Period(0, 1, "BECMG", Poor.clouds, Poor.visib, Poor.wspd, Poor.wgst, Poor.wdir),
           Period(1, 2, NoChange, Fair.clouds, Fair.visib, Fair.wspd, Fair.wgst, Fair.wdir)>>)

\* after the BECMG group's timeTo, inside a later fair base period
C1_Witness ==
  /\ call = "getForecastCategoryFromTaf"
  /\ taf = BecmgThenBase
  /\ fcstCat[1] = "IFR"

\* documents of C2: base periods all classified VFR (at least one), no BECMG
\* group, exactly one TEMPO or PROB group, classified IFR
OverlayScenario(doc) ==
  /\ BaseIndices(doc) # {}
  /\ \A i \in BaseIndices(doc) : getTafPeriodCategory(doc.fcsts[i]) = "VFR"
  /\ Cardinality(GroupIndices(doc)) = 1
  /\ \A i \in GroupIndices(doc) :
       /\ doc.fcsts[i].fcstChange \in {"TEMPO", "PROB"}
       /\ getTafPeriodCategory(doc.fcsts[i]) = "IFR"
TheGroup(doc) == doc.fcsts[CHOOSE i \in GroupIndices(doc) : TRUE]
BaseCovers(doc, t) == \E i \in BaseIndices(doc) : InWindow(doc.fcsts[i], t)

\* C2 as stated: IFR at every t in the group's window, VFR at every t a base
\* period covers outside it (whatever the validity window)
C2_OverlayTemporary_Original ==
  (call = "getForecastCategoryFromTaf" /\ OverlayScenario(taf)) =>
    \A t \in targets :
      /\ InWindow(TheGroup(taf), t) => fcstCat[t] = "IFR"
      /\ (~InWindow(TheGroup(taf), t) /\ BaseCovers(taf, t)) => fcstCat[t] = "VFR"

\* C2 (amended): for a TAF with base periods classified VFR, no BECMG group and
\* one TEMPO or PROB group classified IFR, the category at every t inside the
\* validity window is IFR when t lies in the group's [timeFrom, timeTo) and VFR
\* when t is covered by a base period outside that window.
C2_OverlayTemporary ==
  (call = "getForecastCategoryFromTaf" /\ OverlayScenario(taf)) =>
    \A t \in targets :
      InValidity(taf, t) =>
        /\ InWindow(TheGroup(taf), t) => fcstCat[t] = "IFR"
        /\ (~InWindow(TheGroup(taf), t) /\ BaseCovers(taf, t)) => fcstCat[t] = "VFR"

\* IFR inside the TEMPO window, back to VFR after it
C2_Witness ==
  /\ call = "getForecastCategoryFromTaf"
  /\ taf = TafDoc(<<0, 2>>,
       <<Period(0, 2, NoChange, Fair.clouds, Fair.visib, Fair.wspd, Fair.wgst, Fair.wdir),
         Period(0, 1, "TEMPO", Poor.clouds, Poor.visib, Poor.wspd, Poor.wgst, Poor.wdir)>>)
  /\ fcstCat[0] = "IFR"
  /\ fcstCat[1] = "VFR"

\* C3 as stated: VFR at 06:00, IFR at 11:30, LIFR at 15:00, IFR at 20:00
C3_Scenario_Original ==
  (call = "getForecastCategoryFromTaf" /\ taf = ScenarioTaf) =>
    /\ targets = {6 * Hour} => fcstCat[6 * Hour] = "VFR"
    /\ targets = {11 * Hour + 2 * Quarter} => fcstCat[11 * Hour + 2 * Quarter] = "IFR"
    /\ targets = {15 * Hour} => fcstCat[15 * Hour] = "LIFR"
    /\ targets = {20 * Hour} => fcstCat[20 * Hour] = "IFR"

\* C3 (amended): in the end-to-end scenario the engine returns VFR at 06:00,
\* IFR at 11:30, IFR at 15:00 (visibility "1" is 1 SM, which is IFR, and the
\* BECMG ceiling of 800 ft is IFR) and IFR at 20:00.
C3_Scenario ==
  (call = "getForecastCategoryFromTaf" /\ taf = ScenarioTaf) =>
    /\ targets = {6 * Hour} => fcstCat[6 * Hour] = "VFR"
    /\ targets = {11 * Hour + 2 * Quarter} => fcstCat[11 * Hour + 2 * Quarter] = "IFR"
    /\ targets = {15 * Hour} => fcstCat[15 * Hour] = "IFR"
    /\ targets = {20 * Hour} => fcstCat[20 * Hour] = "IFR"

\* the engine evaluated at 15:00, inside the TEMPO window
C3_Witness ==
  /\ call = "getForecastCategoryFromTaf"
  /\ taf = ScenarioTaf
  /\ targets = {15 * Hour}
  /\ fcstCat[15 * Hour] = "IFR"

\* C4: the category is null at every target time before validTimeFrom or at or
\* after validTimeTo, whatever the document contains (server and client copy).
C4_NullOutsideValidity ==
  call \in {"getForecastCategoryFromTaf", "app.getForecastCategory"} =>
    \A t \in targets : ~InValidity(taf, t) => fcstCat[t] = NoCat

\* a target before the validity window, with a BECMG group that has begun and
\* a TEMPO group whose window contains the target
C4_Witness ==
  /\ call = "getForecastCategoryFromTaf"
  /\ taf = TafDoc(<<1, 3>>,
       <<Period(0, 2, "BECMG", Poor.clouds, Poor.visib, Poor.wspd, Poor.wgst, Poor.wdir),
         Period(0, 1, "TEMPO", Poor.clouds, Poor.visib, Poor.wspd, Poor.wgst, Poor.wdir)>>)
  /\ fcstCat[0] = NoCat
  /\ fcstCat[1] = "IFR"

\* C5 as stated: null at every target inside the validity window that no base
\* period covers
C5_NoBaseNull_Original ==
  call = "getForecastCategoryFromTaf" =>
    \A t \in targets :
      (InValidity(taf, t) /\ ~BaseCovers(taf, t)) => fcstCat[t] = NoCat

\* the categories of the change groups in effect at t: BECMG groups that have
\* begun, TEMPO/PROB groups whose window contains t
GroupCategoriesAt(doc, t) ==
  {getTafPeriodCategory(doc.fcsts[i]) :
     i \in {k \in GroupIndices(doc) :
              IF doc.fcsts[k].fcstChange = "BECMG" THEN doc.fcsts[k].timeFrom <= t
              ELSE InWindow(doc.fcsts[k], t)}} \ {NoCat}

\* C5 (amended): at a target inside the validity window that no base period
\* covers, the category is the most severe category among the BECMG groups with
\* timeFrom <= t and the TEMPO/PROB groups whose window contains t, and null
\* when no such group has a category.
C5_NoBaseWorstOfGroups ==
  call = "getForecastCategoryFromTaf" =>
    \A t \in targets :
      (InValidity(taf, t) /\ ~BaseCovers(taf, t)) =>
        LET cats == GroupCategoriesAt(taf, t)
        IN IF cats = {} THEN fcstCat[t] = NoCat
           ELSE /\ fcstCat[t] \in cats
                /\ \A c \in cats : SeverityOf(fcstCat[t]) >= SeverityOf(c)

\* no base period covers instant 1, where a BECMG group has begun
C5_Witness ==
  /\ call = "getForecastCategoryFromTaf"
  /\ taf = TafDoc(<<0, 2>>,
       <<Period(0, 1, NoChange, Fair.clouds, Fair.visib, Fair.wspd, Fair.wgst, Fair.wdir),
         Period(1, 2, "BECMG", Poor.clouds, Poor.visib, Poor.wspd, Poor.wgst, Poor.wdir)>>)
  /\ fcstCat[0] = "VFR"
  /\ fcstCat[1] = "IFR"

Malformed(p) == p.timeTo <= p.timeFrom
RemoveAt(seq, i) == SubSeq(seq, 1, i - 1) \o SubSeq(seq, i + 1, Len(seq))
Without(doc, i) == [doc EXCEPT !.fcsts = RemoveAt(@, i)]
SameFields(a, b) ==
  a.wspd = b.wspd /\ a.wgst = b.wgst /\ a.wdir = b.wdir /\ a.ceiling = b.ceiling

\* C6 as stated: category and weather are the same with and without any
\* malformed period (timeTo <= timeFrom), BECMG groups included (weather
\* compared field by field, so that null and a record of nulls agree)
C6_MalformedInert_Original ==
  \A i \in Indices(taf) :
    Malformed(taf.fcsts[i]) =>
      /\ call = "getForecastCategoryFromTaf" =>
           \A t \in targets : fcstCat[t] = getForecastCategoryFromTaf(Without(taf, i), t)
      /\ call = "getForecastWeatherFromTaf" =>
           \A t \in targets :
             SameFields(fcstWx[t], getForecastWeatherFromTaf(Without(taf, i), t))

\* C6 (amended): a malformed period (timeTo <= timeFrom) that is a base period
\* or a TEMPO or PROB group contributes nothing: the category, and the wspd,
\* wgst, wdir and ceiling of the weather, are the same with and without it
\* (when it is the document's only period the weather is a record of nulls
\* instead of null).  A malformed BECMG group still applies from its timeFrom.
C6_MalformedInert ==
  \A i \in Indices(taf) :
    (Malformed(taf.fcsts[i]) /\ taf.fcsts[i].fcstChange # "BECMG") =>
      /\ call = "getForecastCategoryFromTaf" =>
           \A t \in targets : fcstCat[t] = getForecastCategoryFromTaf(Without(taf, i), t)
      /\ call = "getForecastWeatherFromTaf" =>
           \A t \in targets :
             LET w == getForecastWeatherFromTaf(Without(taf, i), t)
             IN /\ SameFields(fcstWx[t], w)
                /\ fcstWx[t].isNull # w.isNull => (Len(taf.fcsts) = 1 /\ w.isNull)

\* a malformed TEMPO group reporting IFR over a fair base period
C6_Witness ==
  /\ call = "getForecastWeatherFromTaf"
  /\ taf = TafDoc(<<0, 2>>,
       <<Period(0, 2, NoChange, Fair.clouds, Fair.visib, Fair.wspd, Fair.wgst, Fair.wdir),
         Period(1, 1, "TEMPO", Poor.clouds, Poor.visib, Poor.wspd, Poor.wgst, Poor.wdir)>>)
  /\ fcstWx[1] = Weather(Num(5), Null, Num(90), Num(5000))

---------------------------------------------------------------------------
(* The period evaluator applied to one forecast period *)

\* visibilities of a period: absent, empty, plus-notation, boundary values,
\* an unparseable string, numbers (0 is a number, not an absent value)
PeriodVisInputs ==
  {VisAbsent, VisStr(<<>>), VisStr(<<"6", "+">>), VisStr(<<"3">>), VisStr(<<"0">>),
   VisStr(<<"x">>), VisNum(0), VisNum(500), VisNum(10 * Milli)}

InitPeriod ==
  /\ call = "none"
  /\ \E chg \in {NoChange, "BECMG"}, cl \in CloudInputs, vsm \in PeriodVisInputs :
       fcst = Period(0, 1, chg, cl, vsm, Null, Null, Null)
  /\ category = NoCat
  /\ ceilingFt = Null /\ visibSM = VisAbsent
  /\ CloudsIdle /\ SecondIdle /\ TafIdle /\ StoreIdle /\ RunIdle

PeriodFrame ==
  UNCHANGED <<clouds, ceiling, ceilingFt, visibSM, ceilingFt2, visibSM2,
              category2, taf, targets, fcstCat, fcstWx, fcst, storeVars, runVars>>

\* the server classifies the period
PeriodCategory ==
  /\ call = "none"
  /\ call' = "getTafPeriodCategory"
  /\ category' = getTafPeriodCategory(fcst)
  /\ PeriodFrame

\* the client classifies the period
AppPeriodCategory ==
  /\ call = "none"
  /\ call' = "app.getTafPeriodCategory"
  /\ category' = app_getTafPeriodCategory(fcst)
  /\ PeriodFrame

NextPeriod == PeriodCategory \/ AppPeriodCategory

SpecPeriod == InitPeriod /\ [][NextPeriod]_vars

---------------------------------------------------------------------------
(* Properties of the period evaluator *)

\* the ceiling a cloud list reports: the base of its first BKN/OVC/OVX layer
FirstCeiling(cl) ==
  IF cl.isArray /\ \E i \in 1..Len(cl.layers) : Qualifies(cl.layers[i])
  THEN cl.layers[CHOOSE i \in 1..Len(cl.layers) :
                   /\ Qualifies(cl.layers[i])
                   /\ \A k \in 1..(i - 1) : ~Qualifies(cl.layers[k])].base
  ELSE Null

VisAbsentOrEmpty(vsm) == vsm.kind = "absent" \/ vsm = VisStr(<<>>)

\* C11: getTafPeriodCategory returns null exactly when the period has no
\* ceiling and its visib is absent or empty; in every other case it returns
\* computeFlightCategory(ceiling, visib), so a period whose data show both
\* axes clear is VFR, not null (server and client copy).
C11_PeriodCategory ==
  call \in {"getTafPeriodCategory", "app.getTafPeriodCategory"} =>
    LET ceil == FirstCeiling(fcst.clouds)
        noData == ceil = Null /\ VisAbsentOrEmpty(fcst.visib)
        classified == IF call = "getTafPeriodCategory"
                      THEN computeFlightCategory(ceil, fcst.visib)
                      ELSE app_computeFlightCategory(ceil, fcst.visib)
        clear == /\ TableCeilingCategory(ceil) = "VFR"
                 /\ VisReported(fcst.visib).what \in {"value", "absent"}
                 /\ TableVisibilityCategory(VisReported(fcst.visib)) = "VFR"
    IN /\ category = NoCat <=> noData
       /\ ~noData => category = classified
       /\ (~noData /\ clear) => category = "VFR"

\* a period that reports scattered cloud only (no ceiling) and visibility 6+
C11_Witness ==
  /\ call = "getTafPeriodCategory"
  /\ fcst.clouds = CloudList(<<Layer("SCT", Num(2000))>>)
  /\ fcst.visib = VisStr(<<"6", "+">>)
  /\ category = "VFR"

---------------------------------------------------------------------------
(* The engine applied to documents whose optional fields are missing *)

\* what a period may leave out: the cloud list (absent or empty), the base of
\* a layer, the visibility (absent or empty), each wind field, fcstChange; an
\* absent or empty fcsts is the empty sequence.  timeBec is absent in every
\* period and probability is read by no function.
SparseClouds ==
  {NoClouds, CloudList(<<>>), CloudList(<<Layer("BKN", Null)>>),
   CloudList(<<Layer("OVC", Num(800))>>)}
SparseVis == {VisAbsent, VisStr(<<>>), VisStr(<<"3">>)}
SparseWinds == {<<Null, Null, Null>>, <<Num(10), Null, Num(180)>>}
SparsePeriods ==
  {Period(w[1], w[2], chg, cl, vsm, wi[1], wi[2], wi[3]) :
     w \in {<<0, 2>>, <<1, 2>>}, chg \in Changes, cl \in SparseClouds,
     vsm \in SparseVis, wi \in SparseWinds}

InitTotal ==
  /\ call = "none"
  /\ \E fs \in SeqsUpTo(SparsePeriods, 2) : taf = TafDoc(<<0, 2>>, fs)
  /\ targets = {}
  /\ fcstCat = <<>>
  /\ fcstWx = <<>>
  /\ CloudsIdle /\ ClassifyIdle /\ SecondIdle /\ PeriodIdle /\ StoreIdle /\ RunIdle

SpecTotal == InitTotal /\ [][NextTaf]_vars

---------------------------------------------------------------------------
(* Totality of the engine *)

Categories == {"VFR", "MVFR", "IFR", "LIFR"}
NumberOrNull(x) == x.t \in {"null", "num"}

\* C12: on documents and periods with missing optional fields every engine
\* function returns a value of its result type and raises no error:
\* getCeilingFromClouds a number or null, computeFlightCategory a category,
\* getTafPeriodCategory and getForecastCategoryFromTaf a category or null,
\* getForecastWeatherFromTaf null or a record of numbers and nulls.
C12_Total ==
  call # "none" =>
    /\ \A i \in 1..Len(taf.fcsts) :
         LET p == taf.fcsts[i]
             ceil == getCeilingFromClouds(p.clouds)
         IN /\ NumberOrNull(ceil)
            /\ computeFlightCategory(ceil, p.visib) \in Categories
            /\ getTafPeriodCategory(p) \in Categories \cup {NoCat}
    /\ call \in {"getForecastCategoryFromTaf", "app.getForecastCategory"} =>
         /\ DOMAIN fcstCat = targets
         /\ \A t \in targets : fcstCat[t] \in Categories \cup {NoCat}
    /\ call = "getForecastWeatherFromTaf" =>
         /\ DOMAIN fcstWx = targets
         /\ \A t \in targets :
              \/ fcstWx[t] = NoWeather
              \/ /\ fcstWx[t].isNull = FALSE
                 /\ NumberOrNull(fcstWx[t].wspd) /\ NumberOrNull(fcstWx[t].wgst)
                 /\ NumberOrNull(fcstWx[t].wdir) /\ NumberOrNull(fcstWx[t].ceiling)

\* a base period without clouds, visibility and wind, followed by a group
\* whose ceiling layer has no base: the weather at 1 is a record of nulls
C12_Witness ==
  /\ call = "getForecastWeatherFromTaf"
  /\ Len(taf.fcsts) = 2
  /\ taf.fcsts[1] = Period(0, 2, NoChange, NoClouds, VisAbsent, Null, Null, Null)
  /\ taf.fcsts[2] = Period(1, 2, "TEMPO", CloudList(<<Layer("BKN", Null)>>),
                           VisStr(<<>>), Null, Null, Null)
  /\ fcstWx[1] = Weather(Null, Null, Null, Null)

---------------------------------------------------------------------------
(* Properties of the weather-parameter resolution *)

WeatherFields == {"wspd", "wgst", "wdir", "ceiling"}

\* what a period reports for a field (null when it does not report it)
FieldOf(p, f) ==
  CASE f = "wspd" -> p.wspd
    [] f = "wgst" -> p.wgst
    [] f = "wdir" -> p.wdir
    [] f = "ceiling" -> FirstCeiling(p.clouds)

ResultField(r, f) ==
  CASE f = "wspd" -> r.wspd
    [] f = "wgst" -> r.wgst
    [] f = "wdir" -> r.wdir
    [] f = "ceiling" -> r.ceiling

MaxOf(S) == CHOOSE x \in S : \A y \in S : y <= x
MinOf(S) == CHOOSE x \in S : \A y \in S : x <= y

\* the BECMG groups that have begun at t and report field f
BecmgReporting(doc, t, f) ==
  {i \in Indices(doc) : /\ doc.fcsts[i].fcstChange = "BECMG"
                        /\ doc.fcsts[i].timeFrom <= t
                        /\ FieldOf(doc.fcsts[i], f) # Null}
CoveringBases(doc, t) == {i \in BaseIndices(doc) : InWindow(doc.fcsts[i], t)}
\* the TEMPO/PROB groups whose window contains t
OverlaysAt(doc, t) ==
  {i \in Indices(doc) : /\ doc.fcsts[i].fcstChange \notin {NoChange, "BECMG"}
                        /\ InWindow(doc.fcsts[i], t)}

\* the value of the last reporting BECMG group, else that of the covering base
\* period, else null
Adjusted(doc, t, f) ==
  IF BecmgReporting(doc, t, f) # {}
  THEN FieldOf(doc.fcsts[MaxOf(BecmgReporting(doc, t, f))], f)
  ELSE IF CoveringBases(doc, t) # {}
       THEN FieldOf(doc.fcsts[MinOf(CoveringBases(doc, t))], f)
       ELSE Null

\* C13: in getForecastWeatherFromTaf every BECMG group that has begun
\* overwrites the fields it reports, even with a less extreme value, and
\* leaves the others alone, in list order: before the TEMPO/PROB overlay each
\* field is that of the last reporting BECMG group, or of the covering base
\* period if none reports it (so it is the result where no TEMPO/PROB group
\* covers the target).
C13_BecmgOverwrites ==
  call = "getForecastWeatherFromTaf" =>
    \A t \in targets : InValidity(taf, t) /\ taf.fcsts # <<>> =>
      LET groups == SelectSeq(taf.fcsts, LAMBDA f : f.fcstChange # NoChange)
          bases == SelectSeq(taf.fcsts, LAMBDA f : f.fcstChange = NoChange)
          beforeOverlay == BecmgWeather(groups, 1, t, BaseWeather(bases, 1, t))
      IN \A f \in WeatherFields :
           /\ ResultField(beforeOverlay, f) = Adjusted(taf, t, f)
           /\ OverlaysAt(taf, t) = {} => ResultField(fcstWx[t], f) = Adjusted(taf, t, f)

\* a base period with strong wind and a low ceiling, then a BECMG group with
\* light wind, no gust and a high ceiling: the wind drops, the gust stays
C13_Witness ==
  /\ call = "getForecastWeatherFromTaf"
  /\ Len(taf.fcsts) = 2
  /\ taf.validTimeFrom = 0
  /\ taf.fcsts[1] = Period(0, 2, NoChange, Poor.clouds, Poor.visib,
                           Poor.wspd, Poor.wgst, Poor.wdir)
  /\ taf.fcsts[2] = Period(1, 2, "BECMG", Fair.clouds, Fair.visib,
                           Fair.wspd, Fair.wgst, Fair.wdir)
  /\ fcstWx[1] = Weather(Num(5), Num(30), Num(90), Num(5000))

\* the worse of the BECMG-adjusted value and the values the covering
\* TEMPO/PROB groups report: the highest wind, the lowest ceiling
Overlaid(doc, t, f) ==
  LET vals == {FieldOf(doc.fcsts[i], f).v :
                 i \in {k \in OverlaysAt(doc, t) : FieldOf(doc.fcsts[k], f) # Null}}
                \cup (IF Adjusted(doc, t, f) # Null THEN {Adjusted(doc, t, f).v} ELSE {})
  IN IF f = "wdir" THEN Adjusted(doc, t, f)
     ELSE IF vals = {} THEN Null
     ELSE IF f = "ceiling" THEN Num(MinOf(vals))
     ELSE Num(MaxOf(vals))

\* C14: the TEMPO/PROB groups whose window contains t change the
\* BECMG-adjusted result only per field and toward the worse value: final wspd
\* and wgst are the maximum, final ceiling the minimum, of the adjusted value
\* and the values those groups report (null is replaced by any reported value),
\* and wdir is never changed by them.
C14_OverlayWorst ==
  call = "getForecastWeatherFromTaf" =>
    \A t \in targets : InValidity(taf, t) /\ taf.fcsts # <<>> =>
      \A f \in WeatherFields : ResultField(fcstWx[t], f) = Overlaid(taf, t, f)

\* a base period with strong wind and a low ceiling under a TEMPO group with
\* light wind, another direction and a high ceiling: nothing changes
C14_Witness ==
  /\ call = "getForecastWeatherFromTaf"
  /\ Len(taf.fcsts) = 2
  /\ taf.validTimeFrom = 0
  /\ taf.fcsts[1] = Period(0, 2, NoChange, Poor.clouds, Poor.visib,
                           Poor.wspd, Poor.wgst, Poor.wdir)
  /\ taf.fcsts[2] = Period(0, 2, "TEMPO", Fair.clouds, Fair.visib,
                           Fair.wspd, Fair.wgst, Fair.wdir)
  /\ fcstWx[1] = Weather(Num(20), Num(30), Num(270), Num(800))

---------------------------------------------------------------------------
(* Server and client copies of the engine; order of the change groups *)

\* C19: for every TAF document and every target time the server's
\* getForecastCategoryFromTaf and the four-tier client's getForecastCategory
\* return the same category (or both null).
C19_CopiesAgree ==
  /\ call = "getForecastCategoryFromTaf" =>
       \A t \in targets : fcstCat[t] = app_getForecastCategory(taf, t)
  /\ call = "app.getForecastCategory" =>
       \A t \in targets : fcstCat[t] = getForecastCategoryFromTaf(taf, t)

\* the client evaluates a fair base period with a BECMG group to poor weather
\* from 1 on
C19_Witness ==
  /\ call = "app.getForecastCategory"
  /\ Len(taf.fcsts) = 2
  /\ taf.validTimeFrom = 0
  /\ taf.fcsts[1].fcstChange = NoChange /\ taf.fcsts[1].clouds = Fair.clouds
  /\ taf.fcsts[1].timeFrom = 0 /\ taf.fcsts[1].timeTo = 2
  /\ taf.fcsts[2].fcstChange = "BECMG" /\ taf.fcsts[2].clouds = Poor.clouds
  /\ taf.fcsts[2].timeFrom = 1
  /\ fcstCat[0] = "VFR" /\ fcstCat[1] = "IFR"

\* worseCat on the categories and null: null is the identity, the result does
\* not depend on the order or the grouping of the operands
WorseCatLaws ==
  LET Cats == Categories \cup {NoCat}
  IN /\ \A x \in Cats : worseCat(NoCat, x) = x /\ worseCat(x, NoCat) = x
     /\ \A x, y \in Cats : worseCat(x, y) = worseCat(y, x)
     /\ \A x, y, z \in Cats :
          worseCat(worseCat(x, y), z) = worseCat(x, worseCat(y, z))
     /\ \A x, y \in Categories :
          worseCat(x, y) = IF SeverityOf(x) >= SeverityOf(y) THEN x ELSE y

\* the document with the periods at positions i and j exchanged
Swap(doc, i, j) ==
  [doc EXCEPT !.fcsts = [k \in 1..Len(doc.fcsts) |->
                           IF k = i THEN doc.fcsts[j]
                           ELSE IF k = j THEN doc.fcsts[i] ELSE doc.fcsts[k]]]

\* C20: worseCat is a maximum with null as identity (commutative and
\* associative on the categories), so getForecastCategoryFromTaf returns the
\* same category when two change groups of fcsts are exchanged, hence for
\* every permutation of the change groups.
C20_OrderIrrelevant ==
  /\ WorseCatLaws
  /\ call = "getForecastCategoryFromTaf" =>
       \A i, j \in GroupIndices(taf) : i < j =>
         \A t \in targets : getForecastCategoryFromTaf(Swap(taf, i, j), t) = fcstCat[t]

\* two BECMG groups of different categories that both apply at 1
C20_Witness ==
  /\ call = "getForecastCategoryFromTaf"
  /\ Len(taf.fcsts) = 2
  /\ taf.validTimeFrom = 0
  /\ taf.fcsts[1].fcstChange = "BECMG" /\ taf.fcsts[1].clouds = Poor.clouds
  /\ taf.fcsts[1].timeFrom = 0
  /\ taf.fcsts[2].fcstChange = "BECMG" /\ taf.fcsts[2].clouds = Fair.clouds
  /\ taf.fcsts[2].timeFrom = 1
  /\ fcstCat[1] = "IFR"

---------------------------------------------------------------------------
(* Weather history storage *)

\* Times are whole seconds; a fetch_time, report_time or valid_from column
\* holds the instant its ISO-8601 text denotes, and 0 stands for an absent
\* timestamp (NULL in a column).  An absent icaoId is the empty string.

RECURSIVE LowestBase(_, _, _)
\* the loop of getLowestCloudBase
LowestBase(layers, i, lowest) ==
  IF i > Len(layers) THEN lowest
  ELSE IF ~IsNullish(layers[i].base)
          /\ (IsNullish(lowest) \/ JsLt(layers[i].base, lowest))
       THEN LowestBase(layers, i + 1, layers[i].base)
       ELSE LowestBase(layers, i + 1, lowest)

getLowestCloudBase(cl) ==
  IF ~cl.isArray THEN Null ELSE LowestBase(cl.layers, 1, Null)

\* a table and its AUTOINCREMENT counter
Table(rows, last) == [rows |-> rows, last |-> last]

\* metarExistsStmt.get(icao, reportTime)
metarExistsStmt(rows, icao, reportTime) ==
  \E k \in 1..Len(rows) :
    rows[k].icao_id = icao /\ rows[k].report_time # 0 /\ rows[k].report_time = reportTime

\* insertMetarStmt.run(...) for METAR m fetched at ft
insertMetarStmt(tbl, ft, m) ==
  Table(Append(tbl.rows,
               [id |-> tbl.last + 1, fetch_time |-> ft, icao_id |-> m.icaoId,
                report_time |-> m.reportTime,
                ceiling |-> getCeilingFromClouds(m.clouds),
                cloud_base |-> getLowestCloudBase(m.clouds),
                metar_json |-> m]),
        tbl.last + 1)

RECURSIVE StoreMetarLoop(_, _, _, _)
\* the loop of storeMetarSnapshots over metarArray
StoreMetarLoop(ft, metarArray, i, tbl) ==
  IF i > Len(metarArray) THEN tbl
  ELSE LET m == metarArray[i]
       IN IF m.icaoId = "" THEN StoreMetarLoop(ft, metarArray, i + 1, tbl)
          ELSE IF m.reportTime # 0 /\ metarExistsStmt(tbl.rows, m.icaoId, m.reportTime)
               THEN StoreMetarLoop(ft, metarArray, i + 1, tbl)
               ELSE StoreMetarLoop(ft, metarArray, i + 1, insertMetarStmt(tbl, ft, m))

storeMetarSnapshots(ft, metarArray, tbl) == StoreMetarLoop(ft, metarArray, 1, tbl)

\* tafExistsStmt.get(icao, validFrom)
tafExistsStmt(rows, icao, validFrom) ==
  \E k \in 1..Len(rows) :
    rows[k].icao_id = icao /\ rows[k].valid_from # 0 /\ rows[k].valid_from = validFrom

\* mutant: the category "now" is evaluated at the fetch time, without the clamp
catNowTime_unclamped(t, nowSec) == nowSec

\* mutant: the category "now" is always evaluated at the start of validity
catNowTime_validityStart(t, nowSec) ==
  IF t.validTimeFrom # 0 THEN t.validTimeFrom ELSE nowSec

\* the instant the category "now" is evaluated at: clamped to validity start
catNowTime(t, nowSec) ==
  IF t.validTimeFrom # 0 /\ nowSec < t.validTimeFrom THEN t.validTimeFrom ELSE nowSec

\* insertTafStmt.run(...) for TAF t fetched at ft
insertTafStmt(tbl, ft, t) ==
  LET nowSec == ft
      \* catNow, cat2h, cat4h, cat8h, cat24h, by the hours ahead of nowSec
      cat == [h \in {0, 2, 4, 8, 24} |->
                getForecastCategoryFromTaf(t, IF h = 0 THEN catNowTime(t, nowSec)
                                              ELSE nowSec + h * 3600)]
  IN Table(Append(tbl.rows,
                  [id |-> tbl.last + 1, fetch_time |-> ft, icao_id |-> t.icaoId,
                   valid_from |-> t.validTimeFrom, valid_to |-> t.validTimeTo,
                   flt_cat_now |-> cat[0], flt_cat_2h |-> cat[2],
                   flt_cat_4h |-> cat[4], flt_cat_8h |-> cat[8],
                   flt_cat_24h |-> cat[24], taf_json |-> t]),
           tbl.last + 1)

RECURSIVE StoreTafLoop(_, _, _, _)
\* the loop of storeTafSnapshots over tafArray
StoreTafLoop(ft, tafArray, i, tbl) ==
  IF i > Len(tafArray) THEN tbl
  ELSE LET t == tafArray[i]
       IN IF t.icaoId = "" THEN StoreTafLoop(ft, tafArray, i + 1, tbl)
          ELSE IF t.validTimeFrom # 0 /\ tafExistsStmt(tbl.rows, t.icaoId, t.validTimeFrom)
               THEN StoreTafLoop(ft, tafArray, i + 1, tbl)
               ELSE StoreTafLoop(ft, tafArray, i + 1, insertTafStmt(tbl, ft, t))

storeTafSnapshots(ft, tafArray, tbl) == StoreTafLoop(ft, tafArray, 1, tbl)

\* startup: DELETE the rows of an observation other than its earliest one
PurgeDuplicateMetars(rows) ==
  SelectSeq(rows, LAMBDA r :
    \/ r.report_time = 0
    \/ \A k \in 1..Len(rows) :
         (rows[k].report_time # 0 /\ rows[k].icao_id = r.icao_id
            /\ rows[k].report_time = r.report_time) => r.id <= rows[k].id)

PurgeDuplicateTafs(rows) ==
  SelectSeq(rows, LAMBDA r :
    \/ r.valid_from = 0
    \/ \A k \in 1..Len(rows) :
         (rows[k].valid_from # 0 /\ rows[k].icao_id = r.icao_id
            /\ rows[k].valid_from = r.valid_from) => r.id <= rows[k].id)

\* startup: the instant a missing flt_cat_now is recomputed at
evalTime(doc, fetchSec) ==
  IF doc.validTimeFrom # 0 /\ fetchSec < doc.validTimeFrom
  THEN doc.validTimeFrom ELSE fetchSec

\* startup: backfill null flt_cat_now from the stored taf_json
BackfillFltCatNow(rows) ==
  [k \in 1..Len(rows) |->
     LET cat == getForecastCategoryFromTaf(rows[k].taf_json,
                                           evalTime(rows[k].taf_json, rows[k].fetch_time))
     IN IF rows[k].flt_cat_now = NoCat /\ cat # NoCat
        THEN [rows[k] EXCEPT !.flt_cat_now = cat]
        ELSE rows[k]]

\* startup: backfill null cloud_base from the stored metar_json
BackfillCloudBase(rows) ==
  [k \in 1..Len(rows) |->
     LET base == getLowestCloudBase(rows[k].metar_json.clouds)
     IN IF IsNullish(rows[k].cloud_base) /\ ~IsNullish(base)
        THEN [rows[k] EXCEPT !.cloud_base = base]
        ELSE rows[k]]

\* purgeOldData(days): DELETE the rows fetched before the cutoff
purgeOldData(rows, days, nowSec) ==
  SelectSeq(rows, LAMBDA r : ~(r.fetch_time < nowSec - days * 24 * 60 * 60))

MathMax(S) == CHOOSE x \in S : \A y \in S : y <= x
MathMin(S) == CHOOSE x \in S : \A y \in S : x <= y

\* one entry of tafResult[icao]; id names the stored document it comes from
Sample(row, t) ==
  LET weather == getForecastWeatherFromTaf(row.taf_json, t)
  IN [icao |-> row.icao_id, id |-> row.id, t |-> t,
      wspd |-> weather.wspd, wgst |-> weather.wgst,
      wdir |-> weather.wdir, ceil |-> weather.ceiling]

RECURSIVE SampleLoop(_, _, _)
\* for (let t = sampleFrom; t <= sampleTo; t += 3600)
SampleLoop(row, t, sampleTo) ==
  IF t <= sampleTo
  THEN <<Sample(row, t)>> \o SampleLoop(row, t + 3600, sampleTo)
  ELSE <<>>

RECURSIVE TafSamples(_, _, _, _)
\* the loop of handleHistoryWeather over the rows of one airport
TafSamples(rows, i, fromSec, toSec) ==
  IF i > Len(rows) THEN <<>>
  ELSE LET doc == rows[i].taf_json
           fetchSec == rows[i].fetch_time
           nextFetchSec == IF i < Len(rows) THEN rows[i + 1].fetch_time ELSE toSec
           sampleFrom == MathMax({doc.validTimeFrom, fetchSec, fromSec})
           sampleTo == MathMin({doc.validTimeTo, nextFetchSec, toSec})
       IN (IF doc.validTimeFrom = 0 \/ doc.validTimeTo = 0 THEN <<>>
           ELSE SampleLoop(rows[i], sampleFrom, sampleTo))
          \o TafSamples(rows, i + 1, fromSec, toSec)

\* SELECT ... WHERE icao_id = icao AND fetch_time >= from AND fetch_time <= to
RowsInRange(rows, icao, from, to) ==
  SelectSeq(rows, LAMBDA r : r.icao_id = icao /\ r.fetch_time >= from /\ r.fetch_time <= to)

\* ORDER BY fetch_time: every order of the rows that ascends in fetch_time
\* (rows of equal fetch_time come in an order SQL leaves open)
OrderByFetchTime(rows) ==
  {[k \in 1..Len(rows) |-> rows[q[k]]] :
     q \in {f \in [1..Len(rows) -> 1..Len(rows)] :
              /\ \A a, b \in 1..Len(rows) : a # b => f[a] # f[b]
              /\ \A a, b \in 1..Len(rows) :
                   a < b => rows[f[a]].fetch_time <= rows[f[b]].fetch_time}}

---------------------------------------------------------------------------
(* The server: fetches, storing, restarts and history requests *)

MaxHours == 2
\* the instants at which something happens: the first hours, and one instant
\* more than a day later
Instants == {k * Hour : k \in 1..MaxHours} \cup {(MaxHours + 24) * Hour}
MaxRows == 2      \* rows in the database (both tables)
MaxBatch == 1     \* reports per upstream answer

MetarReport(icao, rt, cl) == [icaoId |-> icao, reportTime |-> rt, clouds |-> cl]
TafReport(icao, v, fs) ==
  [icaoId |-> icao, validTimeFrom |-> v[1], validTimeTo |-> v[2], fcsts |-> fs]

\* what the weather provider may answer: an observation of LOWW and one
\* without reportTime
MetarReports ==
  {MetarReport("LOWW", Hour,
               CloudList(<<Layer("FEW", Num(1000)), Layer("BKN", Num(3500))>>)),
   MetarReport("LOWW", 0, NoClouds)}

\* a day's forecast of LOWW valid from 02:00 that turns poor at 04:00
DayTaf ==
  TafReport("LOWW", <<2 * Hour, 26 * Hour>>,
            <<Period(2 * Hour, 26 * Hour, NoChange, Fair.clouds, Fair.visib,
                     Fair.wspd, Fair.wgst, Fair.wdir),
              Period(4 * Hour, 5 * Hour, "BECMG", Poor.clouds, Poor.visib,
                     Poor.wspd, Poor.wgst, Poor.wdir)>>)
\* a short forecast of LOWW valid 03:00-05:00
ShortTaf ==
  TafReport("LOWW", <<3 * Hour, 5 * Hour>>,
            <<Period(3 * Hour, 5 * Hour, NoChange, Poor.clouds, Poor.visib,
                     Poor.wspd, Poor.wgst, Poor.wdir)>>)
\* an earlier short forecast of LOWW valid 01:00-03:00
EarlyTaf ==
  TafReport("LOWW", <<Hour, 3 * Hour>>,
            <<Period(Hour, 3 * Hour, NoChange, Fair.clouds, Fair.visib,
                     Fair.wspd, Fair.wgst, Fair.wdir)>>)
\* a forecast of LOWG without validTimeFrom
UndatedTaf ==
  TafReport("LOWG", <<0, 4 * Hour>>,
            <<Period(Hour, 4 * Hour, NoChange, Fair.clouds, Fair.visib,
                     Fair.wspd, Fair.wgst, Fair.wdir)>>)
\* a forecast without icaoId
AnonymousTaf == TafReport("", <<2 * Hour, 4 * Hour>>, <<>>)

\* what the weather provider may answer
TafReports == {DayTaf, UndatedTaf, AnonymousTaf}

MetarArrays == SeqsUpTo(MetarReports, MaxBatch)
TafArrays == SeqsUpTo(TafReports, MaxBatch)

InitStore ==
  /\ call = "none"
  /\ now = Hour
  /\ metar_history = <<>>
  /\ taf_history = <<>>
  /\ rowid = [metar_history |-> 0, taf_history |-> 0]
  /\ fetchTime = 0
  /\ serverStartTime = Hour
  /\ query = [from |-> 0, to |-> 0]
  /\ samples = <<>>
  /\ CloudsIdle /\ ClassifyIdle /\ SecondIdle /\ TafIdle /\ PeriodIdle /\ RunIdle

StoreFrame ==
  UNCHANGED <<call, clouds, ceiling, ceilingFt, visibSM, category, ceilingFt2,
              visibSM2, category2, taf, targets, fcstCat, fcstWx, fcst, runVars>>

\* time passes
Tick ==
  /\ \E t \in Instants : t > now /\ now' = t
  /\ UNCHANGED <<metar_history, taf_history, rowid, fetchTime, serverStartTime, query, samples>>
  /\ StoreFrame

\* proxyMetar on a cache miss: storeMetarSnapshots(new Date(), allResults)
ProxyMetar(allResults) ==
  \E tbl \in {storeMetarSnapshots(now, allResults,
                                    Table(metar_history, rowid.metar_history))} :
     /\ Len(tbl.rows) + Len(taf_history) <= MaxRows
     /\ metar_history' = tbl.rows
     /\ rowid' = [rowid EXCEPT !.metar_history = tbl.last]
     /\ UNCHANGED <<now, taf_history, fetchTime, serverStartTime, query, samples>>
     /\ StoreFrame

\* proxyTaf on a cache miss: storeTafSnapshots(new Date(), allResults)
ProxyTaf(allResults) ==
  \E tbl \in {storeTafSnapshots(now, allResults,
                                  Table(taf_history, rowid.taf_history))} :
     /\ Len(metar_history) + Len(tbl.rows) <= MaxRows
     /\ taf_history' = tbl.rows
     /\ rowid' = [rowid EXCEPT !.taf_history = tbl.last]
     /\ UNCHANGED <<now, metar_history, fetchTime, serverStartTime, query, samples>>
     /\ StoreFrame

\* performHistoryFetch up to its first await: fetchTime = new Date()
BeginHistoryFetch ==
  /\ fetchTime = 0
  /\ fetchTime' = now
  /\ UNCHANGED <<now, metar_history, taf_history, rowid, serverStartTime, query, samples>>
  /\ StoreFrame

\* performHistoryFetch after the upstream answers: both tables are written
\* with the fetchTime taken before the requests
FinishHistoryFetch(allMetar, allTaf) ==
  /\ fetchTime # 0
  /\ \E mt \in {storeMetarSnapshots(fetchTime, allMetar,
                                    Table(metar_history, rowid.metar_history))},
        tt \in {storeTafSnapshots(fetchTime, allTaf,
                                  Table(taf_history, rowid.taf_history))} :
     /\ Len(mt.rows) + Len(tt.rows) <= MaxRows
     /\ metar_history' = mt.rows
     /\ taf_history' = tt.rows
     /\ rowid' = [metar_history |-> mt.last, taf_history |-> tt.last]
     /\ fetchTime' = 0
     /\ UNCHANGED <<now, serverStartTime, query, samples>>
     /\ StoreFrame

\* the process is restarted: a fetch in flight is lost, and the startup
\* maintenance runs on the database (duplicate purge, backfills)
Restart ==
  /\ metar_history' = BackfillCloudBase(PurgeDuplicateMetars(metar_history))
  /\ taf_history' = BackfillFltCatNow(PurgeDuplicateTafs(taf_history))
  /\ fetchTime' = 0
  /\ serverStartTime' = now
  /\ UNCHANGED <<now, rowid, query, samples>>
  /\ StoreFrame

\* a start with --purge: purgeOldData runs after the startup fetch
PurgeOnStart(days) ==
  /\ metar_history' = purgeOldData(metar_history, days, now)
  /\ taf_history' = purgeOldData(taf_history, days, now)
  /\ UNCHANGED <<now, rowid, fetchTime, serverStartTime, query, samples>>
  /\ StoreFrame

NextStore ==
  \/ Tick
  \/ \E allResults \in MetarArrays : ProxyMetar(allResults)
  \/ \E allResults \in TafArrays : ProxyTaf(allResults)
  \/ BeginHistoryFetch
  \/ \E allMetar \in MetarArrays, allTaf \in TafArrays : FinishHistoryFetch(allMetar, allTaf)
  \/ Restart
  \/ PurgeOnStart(1)

SpecStore == InitStore /\ [][NextStore]_vars

---------------------------------------------------------------------------
(* History reconstruction over a stored TAF series *)

RECURSIVE StoredTafs(_)
\* the taf_history tables that k calls of storeTafSnapshots can leave
StoredTafs(k) ==
  IF k = 0 THEN {Table(<<>>, 0)}
  ELSE StoredTafs(k - 1)
         \cup {storeTafSnapshots(ft, <<t>>, tbl) :
                 ft \in Instants, t \in {DayTaf, ShortTaf, EarlyTaf, UndatedTaf},
                 tbl \in StoredTafs(k - 1)}

InitHistory ==
  /\ call = "none"
  /\ now = MathMax(Instants)
  /\ metar_history = <<>>
  /\ \E tbl \in StoredTafs(MaxRows) :
       /\ taf_history = tbl.rows
       /\ rowid = [metar_history |-> 0, taf_history |-> tbl.last]
  /\ fetchTime = 0
  /\ serverStartTime = Hour
  /\ query = [from |-> 0, to |-> 0]
  /\ samples = <<>>
  /\ CloudsIdle /\ ClassifyIdle /\ SecondIdle /\ TafIdle /\ PeriodIdle /\ RunIdle

\* GET /api/history/weather?from=..&to=..: the TAF series of the response
HistoryWeather(from, to) ==
  /\ call = "none"
  /\ call' = "handleHistoryWeather"
  /\ \E lowg \in OrderByFetchTime(RowsInRange(taf_history, "LOWG", from, to)),
        loww \in OrderByFetchTime(RowsInRange(taf_history, "LOWW", from, to)) :
       samples' = TafSamples(lowg, 1, from, to) \o TafSamples(loww, 1, from, to)
  /\ query' = [from |-> from, to |-> to]
  /\ UNCHANGED <<now, metar_history, taf_history, rowid, fetchTime, serverStartTime>>
  /\ UNCHANGED <<clouds, ceiling, ceilingFt, visibSM, category, ceilingFt2,
                 visibSM2, category2, taf, targets, fcstCat, fcstWx, fcst, runVars>>

NextHistory == \E from \in Instants, to \in Instants : HistoryWeather(from, to)

SpecHistory == InitHistory /\ [][NextHistory]_vars

---------------------------------------------------------------------------
(* Snapshot storage *)

\* C15: storing is idempotent: metar_history never holds two rows for one
\* unchanged METAR, and taf_history never holds two rows for one unchanged TAF.
C15_Idempotent ==
  /\ \A i \in 1..Len(metar_history), j \in 1..Len(metar_history) :
       i # j => metar_history[i].metar_json # metar_history[j].metar_json
  /\ \A i \in 1..Len(taf_history), j \in 1..Len(taf_history) :
       i # j => taf_history[i].taf_json # taf_history[j].taf_json

\* the rows that carry their key (report time, validity start) are never doubled
C15_KeyedRowsUnique ==
  /\ \A i \in 1..Len(metar_history), j \in 1..Len(metar_history) :
       (i # j /\ metar_history[i].report_time # 0)
         => metar_history[i].metar_json # metar_history[j].metar_json
  /\ \A i \in 1..Len(taf_history), j \in 1..Len(taf_history) :
       (i # j /\ taf_history[i].valid_from # 0)
         => taf_history[i].taf_json # taf_history[j].taf_json

\* the five category columns of a taf_history row
SnapshotCategories(row) ==
  <<row.flt_cat_now, row.flt_cat_2h, row.flt_cat_4h, row.flt_cat_8h, row.flt_cat_24h>>

HorizonCategories(doc, f) ==
  <<getForecastCategoryFromTaf(doc, f + 2 * Hour),
    getForecastCategoryFromTaf(doc, f + 4 * Hour),
    getForecastCategoryFromTaf(doc, f + 8 * Hour),
    getForecastCategoryFromTaf(doc, f + 24 * Hour)>>

---------------------------------------------------------------------------
(* History reconstruction *)

\* the stored row a sample was computed from
RowOf(s) == CHOOSE k \in 1..Len(taf_history) : taf_history[k].id = s.id

\* a sample lies between its document's fetch time (or the query's from) and
\* the fetch time of every later document of the airport (and the query's to)
InsideFetchWindow(s) ==
  LET row == taf_history[RowOf(s)]
  IN /\ MathMax({row.fetch_time, query.from}) <= s.t
     /\ s.t <= query.to
     /\ \A k \in 1..Len(taf_history) :
          (taf_history[k].icao_id = row.icao_id
             /\ taf_history[k].fetch_time > row.fetch_time)
            => s.t <= taf_history[k].fetch_time

\* a sample lies inside its document's validity window [validTimeFrom, validTimeTo)
InsideValidity(s) ==
  LET doc == taf_history[RowOf(s)].taf_json
  IN doc.validTimeFrom <= s.t /\ s.t < doc.validTimeTo

\* the samples of the response lie inside the fetch windows of their documents
C18_FetchWindows ==
  call = "handleHistoryWeather"
    => \A k \in 1..Len(samples) : InsideFetchWindow(samples[k])

\* consecutive samples of one document are 3600 s apart
C18_Hourly ==
  call = "handleHistoryWeather"
    => \A k \in 1..(Len(samples) - 1) :
         samples[k].id = samples[k + 1].id => samples[k + 1].t = samples[k].t + 3600

\* C18: every sample handleHistoryWeather emits for a stored TAF lies inside
\* the document's authority window (from its fetch time or the query's from up
\* to the next document's fetch time or the query's to) and inside its validity
\* window [validTimeFrom, validTimeTo), and consecutive samples of one document
\* are 3600 s apart.
C18_AuthorityWindow ==
  /\ C18_FetchWindows
  /\ C18_Hourly
  /\ call = "handleHistoryWeather"
       => \A k \in 1..Len(samples) : InsideValidity(samples[k])

---------------------------------------------------------------------------
(* Category and weather resolution compared *)

\* C28: whenever getForecastWeatherFromTaf reports a non-null ceiling c at t,
\* getForecastCategoryFromTaf is non-null at t and at least as severe as the
\* category of the ceiling alone, computeFlightCategory(c, null).
C28_CategoryCoversCeiling ==
  call = "getForecastWeatherFromTaf" =>
    \A t \in targets :
      (~fcstWx[t].isNull /\ ~IsNullish(fcstWx[t].ceiling)) =>
        LET cat == getForecastCategoryFromTaf(taf, t)
        IN /\ cat # NoCat
           /\ SeverityOf(cat)
                >= SeverityOf(computeFlightCategory(fcstWx[t].ceiling, VisAbsent))

\* a poor base period with a BECMG group to fair weather: from 1 on the
\* ceiling is the group's 5000 ft while the category stays IFR
C28_Witness ==
  /\ call = "getForecastWeatherFromTaf"
  /\ Len(taf.fcsts) = 2
  /\ taf.validTimeFrom = 0
  /\ taf.fcsts[1].fcstChange = NoChange /\ taf.fcsts[1].clouds = Poor.clouds
  /\ taf.fcsts[1].timeFrom = 0 /\ taf.fcsts[1].timeTo = 2
  /\ taf.fcsts[2].fcstChange = "BECMG" /\ taf.fcsts[2].clouds = Fair.clouds
  /\ taf.fcsts[2].timeFrom = 1
  /\ fcstWx[0].ceiling = Num(800) /\ fcstWx[1].ceiling = Num(5000)
  /\ getForecastCategoryFromTaf(taf, 1) = "IFR"

\* C29: in the TAF series of one airport the sample timestamps are strictly
\* increasing: no timestamp is emitted twice, neither by one document nor at
\* the hand-over between two consecutive documents.
C29_StrictlyIncreasing ==
  call = "handleHistoryWeather" =>
    \A k, l \in 1..Len(samples) :
      (k < l /\ samples[k].icao = samples[l].icao) => samples[k].t < samples[l].t

\* the timestamps of one airport never decrease
C29_NonDecreasing ==
  call = "handleHistoryWeather" =>
    \A k, l \in 1..Len(samples) :
      (k < l /\ samples[k].icao = samples[l].icao) => samples[k].t <= samples[l].t

---------------------------------------------------------------------------
(* The log endpoint: handleLogApi and readLog *)

LOG_MAX_ENTRIES == 200

RECURSIVE IntDigits(_, _, _)
\* the value of the leading decimal digits of s from position i on
IntDigits(s, i, n) ==
  IF i > Len(s) \/ s[i] \notin DigitChars THEN n
  ELSE IntDigits(s, i + 1, 10 * n + DigitVal(s[i]))

\* parseInt(query.n): an optional sign, then the leading digits; NaN when
\* there is none (also for a missing parameter)
ParseInt(q) ==
  IF q.kind = "absent" THEN NaN
  ELSE LET s == q.chars
           signed == Len(s) > 0 /\ s[1] \in {"-", "+"}
           first == IF signed THEN 2 ELSE 1
       IN IF first > Len(s) \/ s[first] \notin DigitChars THEN NaN
          ELSE IF signed /\ s[1] = "-" THEN Num(0 - IntDigits(s, first, 0))
          ELSE Num(IntDigits(s, first, 0))

\* x || LOG_MAX_ENTRIES: NaN and 0 are falsy
OrDefault(x) == IF x.t = "nan" \/ x.v = 0 THEN LOG_MAX_ENTRIES ELSE x.v

\* const n = Math.min(parseInt(query.n) || LOG_MAX_ENTRIES, LOG_MAX_ENTRIES)
LogLimit(q) == MathMin({OrDefault(ParseInt(q)), LOG_MAX_ENTRIES})

\* Array.prototype.slice(start)
Slice(seq, start) ==
  LET len == Len(seq)
      k == IF start < 0 THEN MathMax({len + start, 0}) ELSE MathMin({start, len})
  IN SubSeq(seq, k + 1, len)

\* a line of the file: blank lines and lines with fewer than three fields
\* are skipped, the others are tested against the filters
LogMatches(line, levelFilter, categoryFilter) ==
  /\ ~line.blank
  /\ line.parts >= 3
  /\ levelFilter # "" => line.level = levelFilter
  /\ categoryFilter # "" => line.category = categoryFilter

LogEntry(line) == [time |-> line.time, level |-> line.level, category |-> line.category]

readLog(n, levelFilter, categoryFilter) ==
  LET kept == SelectSeq(logFile, LAMBDA line : LogMatches(line, levelFilter, categoryFilter))
      entries == [i \in 1..Len(kept) |-> LogEntry(kept[i])]
  IN Slice(entries, 0 - n)

\* the i-th line appendLog wrote, with a blank line and a damaged line now
\* and then
LogLine(i) ==
  [blank |-> i % 7 = 0, parts |-> IF i % 11 = 0 THEN 2 ELSE 5, time |-> i,
   level |-> IF i % 2 = 0 THEN "ERROR" ELSE "INFO",
   category |-> IF i % 3 = 0 THEN "METAR" ELSE "SYSTEM"]

\* lengths of the log file: empty, short, and longer than LOG_MAX_ENTRIES
\* entries
LogLengths == {0, 3, 150 + LOG_MAX_ENTRIES}

MaxDigits == 3
LogAlphabet == {"-", "0", "2", "x"}
LogNs ==
  {[kind |-> "absent", chars |-> <<>>]}
    \cup {[kind |-> "string", chars |-> s] : s \in SeqsUpTo(LogAlphabet, MaxDigits)}

InitLog ==
  /\ call = "none"
  /\ \E len \in LogLengths : logFile = [i \in 1..len |-> LogLine(i)]
  /\ logQuery = NoQuery
  /\ logEntries = <<>>
  /\ CloudsIdle /\ ClassifyIdle /\ SecondIdle /\ TafIdle /\ PeriodIdle
  /\ StoreIdle /\ TxnIdle /\ SrvIdle

\* GET /api/log?n=..&level=..&category=..
HandleLogApi(n, level, categoryFilter) ==
  /\ call = "none"
  /\ call' = "handleLogApi"
  /\ logQuery' = [n |-> n, level |-> level, category |-> categoryFilter]
  /\ logEntries' = readLog(LogLimit(n), level, categoryFilter)
  /\ UNCHANGED <<logFile, txnVars, srvVars, storeVars>>
  /\ UNCHANGED <<clouds, ceiling, ceilingFt, visibSM, category, ceilingFt2,
                 visibSM2, category2, taf, targets, fcstCat, fcstWx, fcst>>

NextLog ==
  \E n \in LogNs, level \in {"", "ERROR"}, categoryFilter \in {"", "METAR"} :
    HandleLogApi(n, level, categoryFilter)

SpecLog == InitLog /\ [][NextLog]_vars

\* the entries of the file that pass the filters of the request, oldest first
Matching ==
  LET kept == SelectSeq(logFile, LAMBDA line :
                 /\ ~line.blank /\ line.parts >= 3
                 /\ logQuery.level # "" => line.level = logQuery.level
                 /\ logQuery.category # "" => line.category = logQuery.category)
  IN [i \in 1..Len(kept) |-> LogEntry(kept[i])]

\* the response is the tail of the matching entries, in file order
C27_NewestInOrder ==
  call = "handleLogApi" =>
    \E k \in 0..Len(Matching) : logEntries = SubSeq(Matching, k + 1, Len(Matching))

\* C27: /api/log never returns more than LOG_MAX_ENTRIES entries, whatever the
\* n parameter and the length of the log file, and the entries returned are
\* the newest matching ones in file order.
C27_LogBounded ==
  /\ C27_NewestInOrder
  /\ call = "handleLogApi" => Len(logEntries) <= LOG_MAX_ENTRIES

\* for an n that parseInt reads as non-negative (or not at all) the response
\* holds at most LOG_MAX_ENTRIES entries
C27_BoundedUnlessNegative ==
  (call = "handleLogApi" /\ ~JsLt(ParseInt(logQuery.n), Num(0)))
    => Len(logEntries) <= LOG_MAX_ENTRIES

---------------------------------------------------------------------------
(* Database transactions: BEGIN, COMMIT and ROLLBACK around the writes *)

MaxAirports == 2

\* an item of the OpenAIP answer; a name that is an object cannot be bound to
\* a statement parameter, so upsert.run throws on it
Airport(icao, nameKind) == [icaoCode |-> icao, name |-> nameKind]
AirportItems ==
  {Airport("LOWW", "string"), Airport("LOWG", "string"), Airport("LOWS", "object"),
   Airport("", "string")}
AirportLists == SeqsUpTo(AirportItems, MaxAirports)

\* INSERT OR REPLACE INTO tracked_airports
Upsert(rows, a) ==
  Append(SelectSeq(rows, LAMBDA r : r.icao_id # a.icaoCode), [icao_id |-> a.icaoCode])

RECURSIVE UpsertLoop(_, _, _)
\* for (const a of filtered) upsert.run(...): the rows written and whether a
\* statement threw
UpsertLoop(filtered, i, rows) ==
  IF i > Len(filtered) THEN [rows |-> rows, threw |-> FALSE]
  ELSE IF filtered[i].name = "object" THEN [rows |-> rows, threw |-> TRUE]
  ELSE UpsertLoop(filtered, i + 1, Upsert(rows, filtered[i]))

InitTxn ==
  /\ call = "none"
  /\ now = Hour
  /\ metar_history = <<>>
  /\ taf_history = <<>>
  /\ rowid = [metar_history |-> 0, taf_history |-> 0]
  /\ fetchTime = 0
  /\ serverStartTime = Hour
  /\ query = [from |-> 0, to |-> 0]
  /\ samples = <<>>
  /\ CloudsIdle /\ ClassifyIdle /\ SecondIdle /\ TafIdle /\ PeriodIdle
  /\ LogIdle /\ TxnIdle /\ SrvIdle

TxnFrame ==
  /\ UNCHANGED <<now, fetchTime, serverStartTime, query, samples, logVars, srvVars>>
  /\ UNCHANGED <<clouds, ceiling, ceilingFt, visibSM, category, ceilingFt2,
                 visibSM2, category2, taf, targets, fcstCat, fcstWx, fcst>>

\* refreshAirportList once OpenAIP has answered: BEGIN, the upserts, COMMIT,
\* all inside the try whose catch only logs
RefreshAirportList(allAirports) ==
  /\ call' = "refreshAirportList"
  /\ LET filtered == SelectSeq(allAirports, LAMBDA a : a.icaoCode # "")
         done == UpsertLoop(filtered, 1, tracked_airports)
     IN IF inTransaction
        THEN \* db.exec('BEGIN') throws inside the open transaction
             /\ dbError' = "BEGIN"
             /\ UNCHANGED <<inTransaction, tracked_airports>>
        ELSE /\ tracked_airports' = done.rows
             /\ inTransaction' = done.threw
             /\ dbError' = IF done.threw THEN "upsert" ELSE "none"
  /\ UNCHANGED <<metar_history, taf_history, rowid>>
  /\ TxnFrame

\* storeMetarSnapshots(new Date(), metarArray) where the statement of the
\* throwsAt-th report throws (0: none does)
StoreMetarSnapshots(metarArray, throwsAt) ==
  /\ call' = "storeMetarSnapshots"
  /\ throwsAt # 0 => metarArray[throwsAt].icaoId # ""
  /\ \E tbl \in {storeMetarSnapshots(now, metarArray,
                                    Table(metar_history, rowid.metar_history))} :
       /\ Len(tbl.rows) + Len(taf_history) <= MaxRows
       /\ IF Len(metarArray) = 0
          THEN dbError' = "none" /\ UNCHANGED <<metar_history, rowid, inTransaction>>
          ELSE IF inTransaction
          THEN \* BEGIN throws before the try: the caller sees the exception
               dbError' = "BEGIN" /\ UNCHANGED <<metar_history, rowid, inTransaction>>
          ELSE IF throwsAt # 0
          THEN \* catch: ROLLBACK
               dbError' = "insert" /\ UNCHANGED <<metar_history, rowid, inTransaction>>
          ELSE /\ dbError' = "none"
               /\ metar_history' = tbl.rows
               /\ rowid' = [rowid EXCEPT !.metar_history = tbl.last]
               /\ UNCHANGED inTransaction
  /\ UNCHANGED <<taf_history, tracked_airports>>
  /\ TxnFrame

\* storeTafSnapshots(new Date(), tafArray), likewise
StoreTafSnapshots(tafArray, throwsAt) ==
  /\ call' = "storeTafSnapshots"
  /\ throwsAt # 0 => tafArray[throwsAt].icaoId # ""
  /\ \E tbl \in {storeTafSnapshots(now, tafArray,
                                  Table(taf_history, rowid.taf_history))} :
       /\ Len(metar_history) + Len(tbl.rows) <= MaxRows
       /\ IF Len(tafArray) = 0
          THEN dbError' = "none" /\ UNCHANGED <<taf_history, rowid, inTransaction>>
          ELSE IF inTransaction
          THEN dbError' = "BEGIN" /\ UNCHANGED <<taf_history, rowid, inTransaction>>
          ELSE IF throwsAt # 0
          THEN dbError' = "insert" /\ UNCHANGED <<taf_history, rowid, inTransaction>>
          ELSE /\ dbError' = "none"
               /\ taf_history' = tbl.rows
               /\ rowid' = [rowid EXCEPT !.taf_history = tbl.last]
               /\ UNCHANGED inTransaction
  /\ UNCHANGED <<metar_history, tracked_airports>>
  /\ TxnFrame

NextTxn ==
  \/ \E allAirports \in AirportLists : RefreshAirportList(allAirports)
  \/ \E metarArray \in MetarArrays, throwsAt \in 0..MaxBatch :
       throwsAt <= Len(metarArray) /\ StoreMetarSnapshots(metarArray, throwsAt)
  \/ \E tafArray \in TafArrays, throwsAt \in 0..MaxBatch :
       throwsAt <= Len(tafArray) /\ StoreTafSnapshots(tafArray, throwsAt)

SpecTxn == InitTxn /\ [][NextTxn]_vars

\* C26: every handler leaves the connection without an open transaction (so no
\* later BEGIN finds one), and a handler in which a statement threw leaves the
\* tables as they were before its BEGIN.
C26_TransactionsClosed ==
  [][/\ ~inTransaction'
     /\ dbError' # "none" =>
          <<metar_history', taf_history', tracked_airports'>>
            = <<metar_history, taf_history, tracked_airports>>]_vars

\* storeMetarSnapshots and storeTafSnapshots close their transaction, and roll
\* a failed batch back
C26_SnapshotStoresClosed ==
  [][call' \in {"storeMetarSnapshots", "storeTafSnapshots"} =>
       /\ inTransaction' = inTransaction
       /\ dbError' # "none" =>
            <<metar_history', taf_history'>> = <<metar_history, taf_history>>]_vars

---------------------------------------------------------------------------
(* Retention: the rows a server started without --purge keeps *)

Day == 24 * Hour
HISTORY_RETENTION_DAYS == 3 * 365
MaxDaysLate == 2   \* days past the retention period that the server runs on

RetentionInstants ==
  Instants \cup {Hour + (HISTORY_RETENTION_DAYS + d) * Day : d \in 0..MaxDaysLate}

\* the server keeps running: only the weekly airport refresh, the cache save
\* and the history fetch are on timers
Elapse ==
  /\ \E t \in RetentionInstants : t > now /\ now' = t
  /\ UNCHANGED <<metar_history, taf_history, rowid, fetchTime, serverStartTime, query, samples>>
  /\ StoreFrame

NextRetention ==
  \/ Elapse
  \/ \E allResults \in MetarArrays : ProxyMetar(allResults)
  \/ \E allResults \in TafArrays : ProxyTaf(allResults)
  \/ BeginHistoryFetch
  \/ \E allMetar \in MetarArrays, allTaf \in TafArrays : FinishHistoryFetch(allMetar, allTaf)
  \/ Restart

SpecRetention == InitStore /\ [][NextRetention]_vars

\* C25: with a purge at every start and every 24 hours, a step of the running
\* server (a request, a fetch, a start) never leaves a row in either table
\* that is more than a day past HISTORY_RETENTION_DAYS days old.
C25_RetentionEnforced ==
  [][now' = now =>
       \A tbl \in {metar_history', taf_history'} : \A i \in DOMAIN tbl :
          now' - tbl[i].fetch_time <= (HISTORY_RETENTION_DAYS + 1) * Day]_vars

---------------------------------------------------------------------------
(* The running server: proxy cache, scheduled history fetch, start *)

WEATHER_CACHE_TTL == 60 * 60
HISTORY_FETCH_INTERVAL == 2 * 60 * 60
SKIP_THRESHOLD == 30 * 60

MaxClock == 3      \* hours the clock runs
MaxRequests == 2   \* proxy requests received
MaxManual == 1     \* of them while the scheduler is explored

CacheKey(kind) == IF kind = "metar" THEN "metar:all" ELSE "taf:all"

\* ids.split(','): the lists requested; <<>> stands for a missing ids parameter
IcaoLists == {<<>>, <<"LOWW">>, <<"LOWG">>}

\* what the weather provider holds at time t for the airports asked for
UpstreamMetar(icaoList, t) ==
  [i \in 1..Len(icaoList) |-> MetarReport(icaoList[i], t, NoClouds)]
UpstreamTaf(icaoList, t) ==
  [i \in 1..Len(icaoList) |->
     TafReport(icaoList[i], <<t, t + 2 * Hour>>,
               <<Period(t, t + 2 * Hour, NoChange, Fair.clouds, Fair.visib,
                        Fair.wspd, Fair.wgst, Fair.wdir)>>)]
Upstream(kind, icaoList, t) ==
  IF kind = "metar" THEN UpstreamMetar(icaoList, t) ELSE UpstreamTaf(icaoList, t)

\* getTrackedIcaoCodes()
getTrackedIcaoCodes(rows) == [i \in 1..Len(rows) |-> rows[i].icao_id]

\* getCached(key, ttl): the entry, or NoEntry when absent or expired
getCached(c, key, ttl) ==
  IF c[key].present /\ ~(now - c[key].time > ttl) THEN c[key] ELSE NoEntry
\* the cache after getCached: an expired entry is deleted
Expired(c, key, ttl) ==
  IF c[key].present /\ now - c[key].time > ttl THEN [c EXCEPT ![key] = NoEntry] ELSE c
\* setCache(key, statusCode, body)
setCache(c, key, statusCode, body) ==
  [c EXCEPT ![key] = [present |-> TRUE, statusCode |-> statusCode, body |-> body,
                      time |-> now]]

\* mutant: the timer is armed without clearing the stored handle
ScheduleHistoryFetch_noClear ==
  /\ timers' = timers \cup {[id |-> timerSeq + 1, due |-> now + HISTORY_FETCH_INTERVAL]}
  /\ timerSeq' = timerSeq + 1
  /\ historyFetchTimer' = timerSeq + 1
  /\ nextHistoryFetchTime' = now + HISTORY_FETCH_INTERVAL

\* scheduleHistoryFetch(): the stored handle is cleared, a timer is armed
\* HISTORY_FETCH_INTERVAL ahead and its handle and due time are stored
ScheduleHistoryFetch ==
  /\ timers' = {t \in timers : t.id # historyFetchTimer}
                 \cup {[id |-> timerSeq + 1, due |-> now + HISTORY_FETCH_INTERVAL]}
  /\ timerSeq' = timerSeq + 1
  /\ historyFetchTimer' = timerSeq + 1
  /\ nextHistoryFetchTime' = now + HISTORY_FETCH_INTERVAL

TimersUnchanged == UNCHANGED <<timers, timerSeq, historyFetchTimer, nextHistoryFetchTime>>

Received == Len(responses) + Cardinality(pending)

Response(id, kind, icaoList, force, statusCode, xcache, body) ==
  [id |-> id, kind |-> kind, ids |-> icaoList, force |-> force,
   statusCode |-> statusCode, xcache |-> xcache, body |-> body, time |-> now]

ServerFrame ==
  /\ UNCHANGED <<call, fetchTime, serverStartTime, query, samples, logVars,
                 inTransaction, dbError>>
  /\ UNCHANGED <<clouds, ceiling, ceilingFt, visibSM, category, ceilingFt2,
                 visibSM2, category2, taf, targets, fcstCat, fcstWx, fcst>>

\* the database as a previous run left it: empty, or with a METAR stored at
\* the time of this start
InitServer ==
  /\ call = "none"
  /\ now = Hour
  /\ \E tbl \in {Table(<<>>, 0),
                 storeMetarSnapshots(Hour, UpstreamMetar(<<"LOWW">>, Hour), Table(<<>>, 0))} :
       /\ metar_history = tbl.rows
       /\ rowid = [metar_history |-> tbl.last, taf_history |-> 0]
  /\ taf_history = <<>>
  /\ fetchTime = 0
  /\ serverStartTime = Hour
  /\ query = [from |-> 0, to |-> 0]
  /\ samples = <<>>
  /\ CloudsIdle /\ ClassifyIdle /\ SecondIdle /\ TafIdle /\ PeriodIdle /\ LogIdle
  /\ inTransaction = FALSE
  /\ dbError = "none"
  /\ tracked_airports \in {<<>>, <<[icao_id |-> "LOWW"]>>}
  /\ cache = [key \in {"metar:all", "taf:all"} |-> NoEntry]
  /\ pending = {}
  /\ responses = <<>>
  /\ fetched = {}
  /\ timers = {}
  /\ timerSeq = 0
  /\ historyFetchTimer = 0
  /\ nextHistoryFetchTime = 0
  /\ fetches = {}
  /\ startup = "starting"

\* the clock
Clock ==
  /\ now < MaxClock * Hour
  /\ now' = now + Hour
  /\ UNCHANGED <<metar_history, taf_history, rowid, tracked_airports, srvVars>>
  /\ ServerFrame

\* proxyMetar / proxyTaf up to the response or the first await
Proxy(kind, icaoList, force) ==
  /\ startup # "starting"
  /\ Received < MaxRequests
  /\ LET id == Received + 1
         key == CacheKey(kind)
         deleted == IF force THEN [cache EXCEPT ![key] = NoEntry] ELSE cache
         cached == getCached(deleted, key, WEATHER_CACHE_TTL)
     IN IF icaoList = <<>>
        THEN /\ responses' = Append(responses, Response(id, kind, icaoList, force, 400, "none", <<>>))
             /\ UNCHANGED <<cache, pending>>
             /\ TimersUnchanged
        ELSE /\ IF force /\ kind = "metar" THEN ScheduleHistoryFetch ELSE TimersUnchanged
             /\ IF cached.present
                THEN /\ responses' = Append(responses,
                           Response(id, kind, icaoList, force, cached.statusCode, "HIT", cached.body))
                     /\ cache' = deleted
                     /\ UNCHANGED pending
                ELSE /\ cache' = Expired(deleted, key, WEATHER_CACHE_TTL)
                     /\ pending' = pending \cup
                          {[id |-> id, kind |-> kind, ids |-> icaoList, force |-> force,
                            startTime |-> now]}
                     /\ UNCHANGED responses
  /\ UNCHANGED <<now, metar_history, taf_history, rowid, tracked_airports, fetched,
                 fetches, startup>>
  /\ ServerFrame

\* the rows of the kind's table after storeMetarSnapshots / storeTafSnapshots
Stored(kind, ft, reports) ==
  IF kind = "metar"
  THEN storeMetarSnapshots(ft, reports, Table(metar_history, rowid.metar_history))
  ELSE storeTafSnapshots(ft, reports, Table(taf_history, rowid.taf_history))

\* proxyMetar / proxyTaf after the await: the upstream answered with what it
\* held when asked (setCache, store, 200 MISS), or httpsGetJson rejected, or
\* a database statement outside the store's try threw after setCache (502)
ProxyAnswer(req, outcome) ==
  /\ req \in pending
  /\ pending' = pending \ {req}
  /\ LET body == Upstream(req.kind, req.ids, req.startTime)
     IN \E tbl \in {Stored(req.kind, now, body)} :
          /\ cache' = IF outcome = "rejected" THEN cache
                      ELSE setCache(cache, CacheKey(req.kind), 200, body)
          /\ fetched' = IF outcome = "rejected" THEN fetched
                        ELSE fetched \cup {[kind |-> req.kind, ids |-> req.ids, body |-> body]}
          /\ IF outcome = "stored"
             THEN /\ metar_history' = IF req.kind = "metar" THEN tbl.rows ELSE metar_history
                  /\ taf_history' = IF req.kind = "taf" THEN tbl.rows ELSE taf_history
                  /\ rowid' = [rowid EXCEPT ![IF req.kind = "metar" THEN "metar_history"
                                              ELSE "taf_history"] = tbl.last]
                  /\ responses' = Append(responses,
                        Response(req.id, req.kind, req.ids, req.force, 200, "MISS", body))
             ELSE /\ UNCHANGED <<metar_history, taf_history, rowid>>
                  /\ responses' = Append(responses,
                        Response(req.id, req.kind, req.ids, req.force, 502, "none", <<>>))
  /\ TimersUnchanged
  /\ UNCHANGED <<now, tracked_airports, fetches, startup>>
  /\ ServerFrame

\* performHistoryFetch up to its first await: the airport list is refreshed
\* when no airport is tracked, else fetchTime is taken and the batches are asked
Perform(origin, icaoCodes) ==
  [origin |-> origin, phase |-> IF icaoCodes = <<>> THEN "refresh" ELSE "batches",
   icaoCodes |-> icaoCodes, fetchTime |-> IF icaoCodes = <<>> THEN 0 ELSE now]

\* what refreshAirportList may return: nothing (no API key, OpenAIP failed or
\* knows no airport) or the airports it stored
RefreshResults == {<<>>, <<"LOWW">>}
Refreshed(rows, icaoCodes) ==
  UpsertLoop([i \in 1..Len(icaoCodes) |-> Airport(icaoCodes[i], "string")], 1, rows).rows

\* SELECT MAX(fetch_time) FROM metar_history, 0 when the table is empty
LastFetch == MathMax({0} \cup {metar_history[i].fetch_time : i \in DOMAIN metar_history})

\* the listen callback after the airport list is there: the initial fetch is
\* skipped when the last one is younger than SKIP_THRESHOLD
AfterBootstrap(rows) ==
  IF LastFetch # 0 /\ now - LastFetch < SKIP_THRESHOLD
  THEN /\ ScheduleHistoryFetch
       /\ startup' = "done"
       /\ UNCHANGED fetches
  ELSE /\ fetches' = fetches \cup {Perform("startup", getTrackedIcaoCodes(rows))}
       /\ startup' = "fetching"
       /\ TimersUnchanged

\* server.listen callback up to its first await
StartServer ==
  /\ startup = "starting"
  /\ IF tracked_airports = <<>>
     THEN /\ startup' = "refreshing"
          /\ UNCHANGED fetches
          /\ TimersUnchanged
     ELSE AfterBootstrap(tracked_airports)
  /\ UNCHANGED <<now, metar_history, taf_history, rowid, tracked_airports, cache,
                 pending, responses, fetched>>
  /\ ServerFrame

\* the listen callback after await refreshAirportList()
StartupRefreshed(icaoCodes) ==
  /\ startup = "refreshing"
  /\ tracked_airports' = Refreshed(tracked_airports, icaoCodes)
  /\ AfterBootstrap(tracked_airports')
  /\ UNCHANGED <<now, metar_history, taf_history, rowid, cache, pending, responses, fetched>>
  /\ ServerFrame

\* what follows performHistoryFetch in its caller: the timer callback and the
\* listen callback both call scheduleHistoryFetch, after try/catch
Complete(origin) ==
  /\ ScheduleHistoryFetch
  /\ startup' = IF origin = "startup" THEN "done" ELSE startup

\* the timer callback: the timer fires and performHistoryFetch starts
FireTimer(t) ==
  /\ t \in timers
  /\ now >= t.due
  /\ timers' = timers \ {t}
  /\ fetches' = fetches \cup {Perform("timer", getTrackedIcaoCodes(tracked_airports))}
  /\ UNCHANGED <<timerSeq, historyFetchTimer, nextHistoryFetchTime>>
  /\ UNCHANGED <<now, metar_history, taf_history, rowid, tracked_airports, cache,
                 pending, responses, fetched, startup>>
  /\ ServerFrame

\* performHistoryFetch after await refreshAirportList(): without airports it
\* returns, else it takes fetchTime and asks for the batches
HistoryRefreshed(f, icaoCodes) ==
  /\ f \in fetches
  /\ f.phase = "refresh"
  /\ tracked_airports' = Refreshed(tracked_airports, icaoCodes)
  /\ IF icaoCodes = <<>>
     THEN /\ fetches' = fetches \ {f}
          /\ Complete(f.origin)
     ELSE /\ fetches' = (fetches \ {f}) \cup {Perform(f.origin, icaoCodes)}
          /\ TimersUnchanged
          /\ UNCHANGED startup
  /\ UNCHANGED <<now, metar_history, taf_history, rowid, cache, pending, responses, fetched>>
  /\ ServerFrame

\* performHistoryFetch after the batches: a failed batch contributes nothing,
\* the answers are stored and cached, or a database statement outside the
\* stores' try throws; the caller then schedules the next fetch
HistoryAnswered(f, metarOk, tafOk, threw) ==
  /\ f \in fetches
  /\ f.phase = "batches"
  /\ fetches' = fetches \ {f}
  /\ LET allMetar == IF metarOk THEN UpstreamMetar(f.icaoCodes, f.fetchTime) ELSE <<>>
         allTaf == IF tafOk THEN UpstreamTaf(f.icaoCodes, f.fetchTime) ELSE <<>>
     IN \E mt \in {storeMetarSnapshots(f.fetchTime, allMetar,
                                       Table(metar_history, rowid.metar_history))},
           tt \in {storeTafSnapshots(f.fetchTime, allTaf,
                                     Table(taf_history, rowid.taf_history))} :
          IF threw
          THEN UNCHANGED <<metar_history, taf_history, rowid, cache, fetched>>
          ELSE /\ metar_history' = mt.rows
               /\ taf_history' = tt.rows
               /\ rowid' = [metar_history |-> mt.last, taf_history |-> tt.last]
               /\ cache' = [key \in DOMAIN cache |->
                    IF key = "metar:all" /\ Len(allMetar) > 0
                    THEN [present |-> TRUE, statusCode |-> 200, body |-> allMetar, time |-> now]
                    ELSE IF key = "taf:all" /\ Len(allTaf) > 0
                    THEN [present |-> TRUE, statusCode |-> 200, body |-> allTaf, time |-> now]
                    ELSE cache[key]]
               /\ fetched' = fetched
                    \cup (IF metarOk THEN {[kind |-> "metar", ids |-> f.icaoCodes, body |-> allMetar]} ELSE {})
                    \cup (IF tafOk THEN {[kind |-> "taf", ids |-> f.icaoCodes, body |-> allTaf]} ELSE {})
  /\ Complete(f.origin)
  /\ UNCHANGED <<now, tracked_airports, pending, responses>>
  /\ ServerFrame

\* an upstream request of the fetch never settles: httpsGetJson sets no
\* timeout and listens for no error on the response
Hang(f) ==
  /\ f \in fetches
  /\ f.phase \in {"refresh", "batches"}
  /\ fetches' = (fetches \ {f}) \cup {[f EXCEPT !.phase = "hung"]}
  /\ TimersUnchanged
  /\ UNCHANGED <<now, metar_history, taf_history, rowid, tracked_airports, cache,
                 pending, responses, fetched, startup>>
  /\ ServerFrame

Outcomes == {"stored", "threw", "rejected"}

\* a start on the database of a previous run that has just fetched
InitProxy ==
  /\ InitServer
  /\ tracked_airports # <<>>
  /\ metar_history # <<>>

NextProxy ==
  \/ Clock
  \/ StartServer
  \/ \E kind \in {"metar", "taf"}, icaoList \in IcaoLists, force \in BOOLEAN :
       Proxy(kind, icaoList, force)
  \/ \E req \in pending, outcome \in Outcomes : ProxyAnswer(req, outcome)
  \/ \E t \in timers : FireTimer(t)
  \/ \E f \in fetches, metarOk \in BOOLEAN, tafOk \in BOOLEAN, threw \in BOOLEAN :
       HistoryAnswered(f, metarOk, tafOk, threw)

SpecProxy == InitProxy /\ [][NextProxy]_vars

NextScheduler ==
  \/ Clock
  \/ StartServer
  \/ \E icaoCodes \in RefreshResults : StartupRefreshed(icaoCodes)
  \/ \E force \in BOOLEAN : Received < MaxManual /\ Proxy("metar", <<"LOWW">>, force)
  \/ \E req \in pending, outcome \in Outcomes : ProxyAnswer(req, outcome)
  \/ \E t \in timers : FireTimer(t)
  \/ \E f \in fetches, icaoCodes \in RefreshResults : HistoryRefreshed(f, icaoCodes)
  \/ \E f \in fetches, metarOk \in BOOLEAN, tafOk \in BOOLEAN, threw \in BOOLEAN :
       HistoryAnswered(f, metarOk, tafOk, threw)
  \/ \E f \in fetches : Hang(f)

SpecScheduler == InitServer /\ [][NextScheduler]_vars

\* the event loop runs the continuation of every fetch whose requests settle
SpecSchedulerFair ==
  /\ SpecScheduler
  /\ WF_vars(\E f \in fetches, icaoCodes \in RefreshResults : HistoryRefreshed(f, icaoCodes))
  /\ WF_vars(\E f \in fetches, metarOk \in BOOLEAN, tafOk \in BOOLEAN, threw \in BOOLEAN :
               HistoryAnswered(f, metarOk, tafOk, threw))

---------------------------------------------------------------------------
(* Properties of the running server *)

HitOf(r) == r.xcache = "HIT"

\* C21: a response served from the cache for ids S carries a body that was
\* fetched from upstream for the same kind and the same ids S.
C21_CacheKeyedByIds ==
  \A i \in DOMAIN responses :
     HitOf(responses[i]) =>
       [kind |-> responses[i].kind, ids |-> responses[i].ids, body |-> responses[i].body]
         \in fetched

\* a response served from the cache carries a body fetched from upstream for
\* the same kind, whatever the ids
C21_HitIsFetchedBody ==
  \A i \in DOMAIN responses :
     HitOf(responses[i]) =>
       \E u \in fetched : u.kind = responses[i].kind /\ u.body = responses[i].body

\* a forced request is never answered from the cache
C22_ForcedNeverHit ==
  \A i \in DOMAIN responses : responses[i].force => ~HitOf(responses[i])

\* C22: a forced request is answered MISS or with an error, never from the
\* cache, and a non-forced request of the same kind that is served from the
\* cache within the TTL after a forced MISS, with no other forced answer in
\* between, carries the body the forced request fetched.
C22_ForcedFresh ==
  /\ C22_ForcedNeverHit
  /\ \A i \in DOMAIN responses : \A j \in DOMAIN responses :
       (/\ i < j
        /\ responses[i].force /\ responses[i].xcache = "MISS"
        /\ ~responses[j].force /\ HitOf(responses[j])
        /\ responses[j].kind = responses[i].kind
        /\ responses[j].time - responses[i].time <= WEATHER_CACHE_TTL
        /\ \A k \in DOMAIN responses :
             i < k /\ k < j => ~(responses[k].force /\ responses[k].kind = responses[i].kind))
       => responses[j].body = responses[i].body

\* the request received in this step, when it is a forced METAR request that
\* names ids
ForcedMetarReceived ==
  /\ Received' = Received + 1
  /\ \E r \in (pending' \ pending)
               \cup (IF Len(responses') > Len(responses)
                     THEN {responses'[Len(responses')]} ELSE {}) :
       r.force /\ r.kind = "metar" /\ r.ids # <<>>

TimerFetchInFlight == \E f \in fetches : f.origin = "timer"
Hung == \E f \in fetches : f.phase = "hung"

\* C23: after every firing of the timer a new timer is eventually armed.
C23_Recurs == TimerFetchInFlight ~> (timers # {})

\* after every firing of the timer a new timer is eventually armed, unless an
\* upstream request of a fetch never settles
C23_RecursWhenSettled == TimerFetchInFlight ~> (timers # {} \/ Hung)

====
